---- MODULE Spec2Model ----
(***************************************************************************)
(* Model of the cryptographic core of securechat-comparator: the Double    *)
(* Ratchet session (DHRatchet, MessageChain), its ReplayProtection guard   *)
(* and the X3DH key agreement.                                             *)
(*                                                                         *)
(* Cryptographic values are symbolic terms.  A term is a tuple whose first *)
(* element is a tag; two terms are equal exactly when they were built the  *)
(* same way, which is the behaviour of HMAC, HKDF, ECDH and AES-GCM up to  *)
(* collisions.  A key pair is an integer id: the public key of pair k and  *)
(* its private key are both written k, and only ECDH, which takes one      *)
(* private and one public key, combines them.                              *)
(***************************************************************************)
EXTENDS Integers, Sequences, FiniteSets, TLC

VARIABLES
    sess,      \* sess[p]: the DHRatchet object of party p
    rp,        \* rp[p]: the ReplayProtection guard of p's session
    now,       \* Date.now(), in ms
    sent,      \* sent[p]: what p's encrypt calls returned, in order, with the plaintext
    dlv,       \* dlv[p]: the envelopes handed to p's decrypt so far, in order
    rand,      \* source of fresh random values (nonces, IVs)
    nextKey,   \* source of fresh key pair ids
    last,      \* the last call: operation, party, argument, outcome
    ticks,     \* number of clock advances so far
    x3,        \* the X3DH key agreement: Bob's key bundle, the initiators, the calls
    admitted,  \* the (nonce, timestamp) pairs a guard used on its own has admitted
    ss,        \* Sealed Sender: the sodium wrapper, the sealed message, the last unseal
    cert,      \* the sender certificate issued last and the last verify call
    store,     \* store[p]: the record the session store holds for p's session
    calls,     \* calls[c]: the encrypt call c that is split at its awaits: position, locals
    env,       \* the SealedEnvelope serialized last and the last deserialize call
    sym,       \* a SymmetricRatchet object
    symCall    \* the last call on the SymmetricRatchet: operation, argument, value returned

vars == <<sess, rp, now, sent, dlv, rand, nextKey, last, ticks, x3, admitted, ss, cert, store, calls, env, sym, symCall>>

(***************************************************************************)
(* Bounds of the model.                                                    *)
(***************************************************************************)
MaxMsgs == 3        \* encrypt calls that return an envelope, both parties together
MaxDeliver == 3     \* decrypt calls, both parties together
MaxForged == 1      \* decrypt calls given a modified envelope
MaxTicks == 1       \* clock advances
\* The same for the network that modifies envelopes.
MaxMsgsForged == 2
MaxDeliverForged == 2
\* The same for sessions set up in any way.
MaxMsgsAny == 2
MaxDeliverAny == 2
\* The same for a network that puts message numbers far ahead.
MaxMsgsSkip == 1
MaxDeliverSkip == 3
\* The same for a conversation long enough for an envelope to arrive a chain late.
MaxMsgsLate == 5
MaxDeliverLate == 4
\* The same for sessions that are saved and restored.
MaxMsgsStore == 1
MaxDeliverStore == 1
MaxLoads == 1         \* loadRatchetState calls for one session
MaxMsgsSecure == 1    \* encrypt calls next to sealed messages
MaxDeliverSecure == 1 \* sealed messages that reach a ratchet
MaxMsgsSaving == 2    \* encrypt calls of sessions that have a store
MaxDeliverSaving == 2 \* decrypt calls of sessions that have a store
MaxCalls == 2         \* encrypt calls that run split at their awaits
MaxDeliverRace == 2   \* decrypt calls next to such encrypt calls
\* A replay guard used on its own.
MaxNonces == 2      \* different nonces
MaxValidate == 3    \* validateMessage calls
MaxPasses == 2      \* clock advances next to a guard used over a longer time
MaxPresented == 2   \* validateMessage calls of such a guard (since its last reset)
MaxNoncesSweep == 2 \* nonces such a guard is given
\* Sealed envelopes on their own.
MaxEnvelopeBytes == 2  \* length of a certificate and of a message given to serialize
MaxWireBytes == 4      \* length of a byte string given to deserialize
\* A symmetric ratchet on its own.
MaxSymNumber == 5   \* message numbers asked of getMessageKey
MaxKeepLast == 2    \* keepLast given to cleanup, besides its default
\* Sender certificates.
MaxIssued == 2      \* certificates generated
MaxUsers == 2       \* user ids
\* Sealed Sender.
MaxBytes == 1       \* length of a certificate and of a message, in bytes
MaxSeals == 2       \* seal calls
MaxRecipients == 2  \* recipient key pairs
\* X3DH.
MaxOPK == 2         \* one-time prekeys of a bundle
MaxInitiators == 2  \* initiators that fetch the bundle
MaxResponses == 2   \* deriveSharedSecret calls of the responder

Party == {"A", "B"}
Peer(p) == IF p = "A" THEN "B" ELSE "A"
\* The texts of the conversation: "ping" and "pong" in turn.  encrypt never
\* looks into the text, so which text is sent decides nothing but the text
\* a correct decrypt must give back.
Plaintext(k) == IF k % 2 = 0 THEN {"ping"} ELSE {"pong"}

(***************************************************************************)
(* Program constants.                                                      *)
(***************************************************************************)
maxNonceAge == 300000
clockSkewTolerance == 30000
maxSkip == 1000

(***************************************************************************)
(* Primitives.                                                             *)
(***************************************************************************)
Min(a, b) == IF a <= b THEN a ELSE b
Max(a, b) == IF a <= b THEN b ELSE a

\* ECDH of private key a with public key b: the same value as b with a.
performECDH(privateKey, publicKey) ==
    <<"dh", Min(privateKey, publicKey), Max(privateKey, publicKey)>>

\* The i-th 32-byte block of HKDF-SHA256(ikm, salt, info).
hkdf(inputKeyMaterial, salt, info, i) == <<"hkdf", inputKeyMaterial, salt, info, i>>

\* HMAC-SHA256 of data under key.
\* HMAC of the one byte 0x02, the step of a chain key, applied n times to a
\* key k is written <<"hmac2", k, n>>.
computeHMAC(key, data) ==
    IF Len(data) = 1 /\ data[1] = 2
    THEN IF key[1] = "hmac2" THEN <<"hmac2", key[2], key[3] + 1>> ELSE <<"hmac2", key, 1>>
    ELSE <<"hmac", key, data>>
\* A faulty verifyHMAC that accepts every tag.
verifyHMAC_AcceptsAll(key, data, mac) == TRUE
verifyHMAC(key, data, mac) == mac = computeHMAC(key, data)

\* AES-GCM: the ciphertext (with its tag) of plaintext under key, iv and AAD.
encryptAESGCM(key, plaintext, iv, associatedData) ==
    <<"gcm", key, iv, associatedData, plaintext>>
\* Decryption succeeds only for a ciphertext made with the same key, iv and AAD.
decryptAESGCMok(key, ciphertext, iv, associatedData) ==
    /\ ciphertext[1] = "gcm"
    /\ ciphertext[2] = key
    /\ ciphertext[3] = iv
    /\ ciphertext[4] = associatedData
decryptAESGCM(key, ciphertext, iv, associatedData) == ciphertext[5]

\* JWK export and import of a public key.
exportPublicKey(publicKey) == <<"jwk", "EC", "P-256", publicKey>>
importPublicKey(jwk) == jwk[4]

ZeroSalt == <<"zero32">>
ChainInfo == <<"DoubleRatchet-ChainKeys">>
MessageInfo(n) == <<"MessageKeys", n>>
SharedSecret == <<"x3dh-shared-secret">>
NoKeyTerm == <<"none">>

(***************************************************************************)
(* MessageChain.                                                           *)
(***************************************************************************)
NoChain == [on |-> FALSE, chainKey |-> NoKeyTerm, messageNumber |-> 0]
MessageChain(chainKey) == [on |-> TRUE, chainKey |-> chainKey, messageNumber |-> 0]

\* A faulty ratchetForward that reads the message number it returns after
\* it has incremented the counter.
ratchetForward_ReadsAfterIncrement(chain) ==
    [ messageKey    |-> computeHMAC(chain.chainKey, <<1>>),
      messageNumber |-> chain.messageNumber + 1,
      chain         |-> [chain EXCEPT !.chainKey = computeHMAC(chain.chainKey, <<2>>),
                                      !.messageNumber = @ + 1] ]

ratchetForward(chain) ==
    [ messageKey    |-> computeHMAC(chain.chainKey, <<1>>),
      messageNumber |-> chain.messageNumber,
      chain         |-> [chain EXCEPT !.chainKey = computeHMAC(chain.chainKey, <<2>>),
                                      !.messageNumber = @ + 1] ]

(***************************************************************************)
(* ReplayProtection.                                                       *)
(***************************************************************************)
NoStats == [messagesAccepted |-> 0, messagesRejected |-> 0,
            replayDetected |-> 0, tooOldDetected |-> 0]

\* new ReplayProtection(): empty sets, zero counters, cleanup timer started.
NewReplayProtection ==
    [receivedNonces |-> {}, nonceTimestamps |-> <<>>, stats |-> NoStats,
     cleanupTimer |-> TRUE]

\* The hex string of a nonce: one string per byte sequence.
bufferToHex(nonce) == <<"hex", nonce>>

\* A faulty validateMessage that throws on a replay without counting it.
validateMessage_ReplayUncounted(g, nonce, timestamp, t) ==
    LET nonceStr == bufferToHex(nonce)
        messageAge == t - timestamp
    IN  IF nonceStr \in g.receivedNonces
        THEN [outcome |-> "replay",
              guard |-> [g EXCEPT !.stats.messagesRejected = @ + 1]]
        ELSE IF messageAge > maxNonceAge
        THEN [outcome |-> "tooOld",
              guard |-> [g EXCEPT !.stats.messagesRejected = @ + 1,
                                  !.stats.tooOldDetected = @ + 1]]
        ELSE IF messageAge < 0 - clockSkewTolerance
        THEN [outcome |-> "future",
              guard |-> [g EXCEPT !.stats.messagesRejected = @ + 1]]
        ELSE [outcome |-> "ok",
              guard |-> [g EXCEPT
                  !.receivedNonces = @ \cup {nonceStr},
                  !.nonceTimestamps =
                      [k \in DOMAIN @ \cup {nonceStr} |->
                          IF k = nonceStr THEN timestamp ELSE @[k]],
                  !.stats.messagesAccepted = @ + 1]]

\* A faulty validateMessage whose window is open at both ends: it rejects a
\* message exactly maxNonceAge old and one exactly 30 s ahead.
validateMessage_OpenWindow(g, nonce, timestamp, t) ==
    LET nonceStr == bufferToHex(nonce)
        messageAge == t - timestamp
    IN  IF nonceStr \in g.receivedNonces
        THEN [outcome |-> "replay",
              guard |-> [g EXCEPT !.stats.messagesRejected = @ + 1,
                                  !.stats.replayDetected = @ + 1]]
        ELSE IF messageAge >= maxNonceAge
        THEN [outcome |-> "tooOld",
              guard |-> [g EXCEPT !.stats.messagesRejected = @ + 1,
                                  !.stats.tooOldDetected = @ + 1]]
        ELSE IF messageAge <= 0 - clockSkewTolerance
        THEN [outcome |-> "future",
              guard |-> [g EXCEPT !.stats.messagesRejected = @ + 1]]
        ELSE [outcome |-> "ok",
              guard |-> [g EXCEPT
                  !.receivedNonces = @ \cup {nonceStr},
                  !.nonceTimestamps =
                      [k \in DOMAIN @ \cup {nonceStr} |->
                          IF k = nonceStr THEN timestamp ELSE @[k]],
                  !.stats.messagesAccepted = @ + 1]]

\* validateMessage(nonce, timestamp) at time t: the outcome ("ok" when it
\* returns true, else the error thrown) and the guard afterwards.
validateMessage(g, nonce, timestamp, t) ==
    LET nonceStr == bufferToHex(nonce)
        messageAge == t - timestamp
    IN  IF nonceStr \in g.receivedNonces
        THEN [outcome |-> "replay",
              guard |-> [g EXCEPT !.stats.messagesRejected = @ + 1,
                                  !.stats.replayDetected = @ + 1]]
        ELSE IF messageAge > maxNonceAge
        THEN [outcome |-> "tooOld",
              guard |-> [g EXCEPT !.stats.messagesRejected = @ + 1,
                                  !.stats.tooOldDetected = @ + 1]]
        ELSE IF messageAge < 0 - clockSkewTolerance
        THEN [outcome |-> "future",
              guard |-> [g EXCEPT !.stats.messagesRejected = @ + 1]]
        ELSE [outcome |-> "ok",
              guard |-> [g EXCEPT
                  !.receivedNonces = @ \cup {nonceStr},
                  !.nonceTimestamps =
                      [k \in DOMAIN @ \cup {nonceStr} |->
                          IF k = nonceStr THEN timestamp ELSE @[k]],
                  !.stats.messagesAccepted = @ + 1]]

\* A faulty cleanupOldNonces that keeps an entry until it is twice
\* maxNonceAge old.
cleanupOldNonces_Late(g, t) ==
    LET old == {k \in DOMAIN g.nonceTimestamps : t - g.nonceTimestamps[k] > 2 * maxNonceAge}
    IN  [g EXCEPT !.receivedNonces = @ \ old,
                  !.nonceTimestamps = [k \in DOMAIN @ \ old |-> @[k]]]

\* A faulty cleanupOldNonces that deletes the old nonces from the set and
\* leaves their timestamps in the map.
cleanupOldNonces_SetOnly(g, t) ==
    LET old == {k \in DOMAIN g.nonceTimestamps : t - g.nonceTimestamps[k] > maxNonceAge}
    IN  [g EXCEPT !.receivedNonces = @ \ old]

\* A faulty cleanupOldNonces that drops every tracked nonce, whatever its age.
cleanupOldNonces_DropsAll(g, t) ==
    [g EXCEPT !.receivedNonces = {}, !.nonceTimestamps = <<>>]

\* cleanupOldNonces() at time t: drops every tracked nonce older than maxNonceAge.
cleanupOldNonces(g, t) ==
    LET old == {k \in DOMAIN g.nonceTimestamps : t - g.nonceTimestamps[k] > maxNonceAge}
    IN  [g EXCEPT !.receivedNonces = @ \ old,
                  !.nonceTimestamps = [k \in DOMAIN @ \ old |-> @[k]]]

\* reset(): forgets every nonce and zeroes the counters.
reset(g) ==
    [g EXCEPT !.receivedNonces = {}, !.nonceTimestamps = <<>>, !.stats = NoStats]

(***************************************************************************)
(* DHRatchet.                                                              *)
(***************************************************************************)
\* new DHRatchet(rootKey, isInitiator): no key pair (0), no chains.
NewDHRatchet(rootKey, isInitiator) ==
    [ rootKey |-> rootKey, isInitiator |-> isInitiator,
      dhKeyPair |-> 0, dhRemotePublicKey |-> 0,
      sendingChain |-> NoChain, receivingChain |-> NoChain,
      messagesSent |-> 0, messagesReceived |-> 0,
      receivedMessageNumbers |-> {}, skippedMessageKeys |-> <<>>,
      sendSequenceNumber |-> 0, lastReceivedSequence |-> 0 - 1,
      enableReplayProtection |-> TRUE ]

\* A faulty performDHRatchetStep that restarts the sequence numbers with the
\* new sending chain.
performDHRatchetStep_RestartsSequence(s) ==
    LET dhOutput == performECDH(s.dhKeyPair, s.dhRemotePublicKey)
    IN  [s EXCEPT !.rootKey = hkdf(dhOutput, s.rootKey, ChainInfo, 1),
                  !.sendingChain = MessageChain(hkdf(dhOutput, s.rootKey, ChainInfo, 2)),
                  !.sendSequenceNumber = 0]

\* A faulty performDHRatchetStep that derives the new keys from the root
\* key alone, without the ECDH output.
performDHRatchetStep_NoDH(s) ==
    [s EXCEPT !.rootKey = hkdf(s.rootKey, s.rootKey, ChainInfo, 1),
              !.sendingChain = MessageChain(hkdf(s.rootKey, s.rootKey, ChainInfo, 2))]

\* performDHRatchetStep(): new root key and new sending chain from
\* ECDH(local private, remote public) with the root key as HKDF salt.
\* (Its callers make sure the remote key is present.)
performDHRatchetStep(s) ==
    LET dhOutput == performECDH(s.dhKeyPair, s.dhRemotePublicKey)
    IN  [s EXCEPT !.rootKey = hkdf(dhOutput, s.rootKey, ChainInfo, 1),
                  !.sendingChain = MessageChain(hkdf(dhOutput, s.rootKey, ChainInfo, 2))]

\* A faulty initialize that starts a sending chain whenever it has a remote key.
initialize_AnyRole(s, dhKeyPair, dhRemotePublicKey) ==
    LET s1 == [s EXCEPT !.dhKeyPair = dhKeyPair,
                        !.dhRemotePublicKey = dhRemotePublicKey]
    IN  IF s1.dhRemotePublicKey # 0
        THEN performDHRatchetStep(s1)
        ELSE s1

\* initialize(dhKeyPair, dhRemotePublicKey); 0 stands for null.
initialize(s, dhKeyPair, dhRemotePublicKey) ==
    LET s1 == [s EXCEPT !.dhKeyPair = dhKeyPair,
                        !.dhRemotePublicKey = dhRemotePublicKey]
    IN  IF s1.isInitiator /\ s1.dhRemotePublicKey # 0
        THEN performDHRatchetStep(s1)
        ELSE s1

\* A faulty needsDHRatchet that asks for a step only while no remote key is
\* stored.
needsDHRatchet_OnlyFirst(s, receivedDHKey) == s.dhRemotePublicKey = 0

\* needsDHRatchet(receivedDHKey): compares the JWK exports of the two keys.
needsDHRatchet(s, receivedDHKey) ==
    IF s.dhRemotePublicKey = 0 THEN TRUE
    ELSE exportPublicKey(s.dhRemotePublicKey) # exportPublicKey(receivedDHKey)

\* A faulty receiveDHRatchet that replaces the key pair before it derives
\* the receiving chain.
receiveDHRatchet_FreshFirst(s, newRemotePublicKey, freshKeyPair) ==
    LET dhOutput == performECDH(freshKeyPair, newRemotePublicKey)
        s1 == [s EXCEPT !.rootKey = hkdf(dhOutput, s.rootKey, ChainInfo, 1),
                        !.receivingChain = MessageChain(hkdf(dhOutput, s.rootKey, ChainInfo, 2)),
                        !.dhRemotePublicKey = newRemotePublicKey,
                        !.dhKeyPair = freshKeyPair]
    IN  performDHRatchetStep(s1)

\* receiveDHRatchet(newRemotePublicKey); freshKeyPair is what
\* generateECDHKeyPair returns.  Both branches of the code do the same:
\* receiving chain from the old key pair, then a fresh pair and a sending chain.
receiveDHRatchet(s, newRemotePublicKey, freshKeyPair) ==
    LET dhOutput == performECDH(s.dhKeyPair, newRemotePublicKey)
        s1 == [s EXCEPT !.rootKey = hkdf(dhOutput, s.rootKey, ChainInfo, 1),
                        !.receivingChain = MessageChain(hkdf(dhOutput, s.rootKey, ChainInfo, 2)),
                        !.dhRemotePublicKey = newRemotePublicKey,
                        !.dhKeyPair = freshKeyPair]
    IN  performDHRatchetStep(s1)

\* The receiving chain after i calls of ratchetForward.
ChainAfter(chain, i) ==
    IF i = 0 THEN chain
    ELSE [chain EXCEPT
            !.chainKey = IF @[1] = "hmac2" THEN <<"hmac2", @[2], @[3] + i>>
                         ELSE <<"hmac2", @, i>>,
            !.messageNumber = @ + i]

\* A faulty loop that skips ahead without caching the keys it passes.
SkipKeys_NoCache(chain, cache, skip) ==
    [chain |-> ChainAfter(chain, skip), cache |-> cache]

\* The loop of getMessageKey: `skip` ratchet steps, caching each message
\* key under its message number (the i-th step is ratchetForward of the
\* chain after i - 1 steps).
SkipKeys(chain, cache, skip) ==
    LET skipped == chain.messageNumber .. (chain.messageNumber + skip - 1)
    IN  [chain |-> ChainAfter(chain, skip),
         cache |-> [k \in DOMAIN cache \cup skipped |->
                      IF k \in skipped
                      THEN ratchetForward(ChainAfter(chain, k - chain.messageNumber)).messageKey
                      ELSE cache[k]]]

\* A faulty getMessageKey that also caches the key it returns.
getMessageKey_CachesReturned(s, messageNumber) ==
    LET currentNumber == s.receivingChain.messageNumber
        skip == messageNumber - currentNumber
    IN  IF ~s.receivingChain.on
        THEN [err |-> "noReceivingChain", messageKey |-> NoKeyTerm, sess |-> s]
        ELSE IF messageNumber < currentNumber
        THEN IF messageNumber \notin DOMAIN s.skippedMessageKeys
             THEN [err |-> "tooOldKey", messageKey |-> NoKeyTerm, sess |-> s]
             ELSE [err |-> "", messageKey |-> s.skippedMessageKeys[messageNumber],
                   sess |-> [s EXCEPT !.skippedMessageKeys =
                                [k \in DOMAIN @ \ {messageNumber} |-> @[k]]]]
        ELSE IF skip > maxSkip
        THEN [err |-> "tooManySkipped", messageKey |-> NoKeyTerm, sess |-> s]
        ELSE LET sk == SkipKeys(s.receivingChain, s.skippedMessageKeys, skip + 1)
             IN  [err |-> "", messageKey |-> sk.cache[messageNumber],
                  sess |-> [s EXCEPT !.receivingChain = sk.chain,
                                     !.skippedMessageKeys = sk.cache]]

\* A faulty getMessageKey that leaves a cached key in the cache when it
\* returns it.
getMessageKey_KeepsCached(s, messageNumber) ==
    LET currentNumber == s.receivingChain.messageNumber
        skip == messageNumber - currentNumber
    IN  IF ~s.receivingChain.on
        THEN [err |-> "noReceivingChain", messageKey |-> NoKeyTerm, sess |-> s]
        ELSE IF messageNumber < currentNumber
        THEN IF messageNumber \notin DOMAIN s.skippedMessageKeys
             THEN [err |-> "tooOldKey", messageKey |-> NoKeyTerm, sess |-> s]
             ELSE [err |-> "", messageKey |-> s.skippedMessageKeys[messageNumber],
                   sess |-> s]
        ELSE IF skip > maxSkip
        THEN [err |-> "tooManySkipped", messageKey |-> NoKeyTerm, sess |-> s]
        ELSE LET sk == SkipKeys(s.receivingChain, s.skippedMessageKeys, skip)
                 r == ratchetForward(sk.chain)
             IN  [err |-> "", messageKey |-> r.messageKey,
                  sess |-> [s EXCEPT !.receivingChain = r.chain,
                                     !.skippedMessageKeys = sk.cache]]

\* A faulty getMessageKey that skips ahead however far it is asked to.
getMessageKey_Unbounded(s, messageNumber) ==
    LET currentNumber == s.receivingChain.messageNumber
        skip == messageNumber - currentNumber
    IN  IF ~s.receivingChain.on
        THEN [err |-> "noReceivingChain", messageKey |-> NoKeyTerm, sess |-> s]
        ELSE IF messageNumber < currentNumber
        THEN IF messageNumber \notin DOMAIN s.skippedMessageKeys
             THEN [err |-> "tooOldKey", messageKey |-> NoKeyTerm, sess |-> s]
             ELSE [err |-> "", messageKey |-> s.skippedMessageKeys[messageNumber],
                   sess |-> [s EXCEPT !.skippedMessageKeys =
                                [k \in DOMAIN @ \ {messageNumber} |-> @[k]]]]
        ELSE LET sk == SkipKeys(s.receivingChain, s.skippedMessageKeys, skip)
                 r == ratchetForward(sk.chain)
             IN  [err |-> "", messageKey |-> r.messageKey,
                  sess |-> [s EXCEPT !.receivingChain = r.chain,
                                     !.skippedMessageKeys = sk.cache]]

\* getMessageKey(messageNumber): err is "" when a key is returned.
getMessageKey(s, messageNumber) ==
    LET currentNumber == s.receivingChain.messageNumber
        skip == messageNumber - currentNumber
    IN  IF ~s.receivingChain.on
        THEN [err |-> "noReceivingChain", messageKey |-> NoKeyTerm, sess |-> s]
        ELSE IF messageNumber < currentNumber
        THEN IF messageNumber \notin DOMAIN s.skippedMessageKeys
             THEN [err |-> "tooOldKey", messageKey |-> NoKeyTerm, sess |-> s]
             ELSE [err |-> "", messageKey |-> s.skippedMessageKeys[messageNumber],
                   sess |-> [s EXCEPT !.skippedMessageKeys =
                                [k \in DOMAIN @ \ {messageNumber} |-> @[k]]]]
        ELSE IF skip > maxSkip
        THEN [err |-> "tooManySkipped", messageKey |-> NoKeyTerm, sess |-> s]
        ELSE LET sk == SkipKeys(s.receivingChain, s.skippedMessageKeys, skip)
                 r == ratchetForward(sk.chain)
             IN  [err |-> "", messageKey |-> r.messageKey,
                  sess |-> [s EXCEPT !.receivingChain = r.chain,
                                     !.skippedMessageKeys = sk.cache]]

\* The additional authenticated data: JSON.stringify of the header fields.
AssociatedData(messageNumber, dhPublicKey, timestamp, sequenceNumber, nonce) ==
    <<"aad", messageNumber, dhPublicKey, timestamp, sequenceNumber, nonce>>

NoEnvelope ==
    [ciphertext |-> <<"none">>, iv |-> 0, mac |-> <<"none">>, messageNumber |-> 0,
     dhPublicKey |-> exportPublicKey(0), nonce |-> 0, timestamp |-> 0,
     sequenceNumber |-> 0]

\* A faulty encrypt that does not look for the sending chain.
encrypt_Unchecked(s, plaintext, t, r) ==
    LET f == ratchetForward(s.sendingChain)
        messageNumber == f.messageNumber
        encryptionKey == hkdf(f.messageKey, ZeroSalt, MessageInfo(messageNumber), 1)
        authKey == hkdf(f.messageKey, ZeroSalt, MessageInfo(messageNumber), 2)
        dhPublicKey == exportPublicKey(s.dhKeyPair)
        nonce == r
        iv == r
        timestamp == t
        sequenceNumber == s.sendSequenceNumber
        associatedData ==
            AssociatedData(messageNumber, dhPublicKey, timestamp, sequenceNumber, nonce)
        ciphertext == encryptAESGCM(encryptionKey, plaintext, iv, associatedData)
        mac == computeHMAC(authKey, <<associatedData, iv, ciphertext>>)
    IN  [err |-> "",
         envelope |-> [ciphertext |-> ciphertext, iv |-> iv, mac |-> mac,
                       messageNumber |-> messageNumber, dhPublicKey |-> dhPublicKey,
                       nonce |-> nonce, timestamp |-> timestamp,
                       sequenceNumber |-> sequenceNumber],
         sess |-> [s EXCEPT !.sendingChain = f.chain,
                            !.sendSequenceNumber = @ + 1,
                            !.messagesSent = @ + 1]]

\* encrypt(plaintext) at time t with the random value r for nonce and IV:
\* err is "" and envelope the result, or err names the error thrown.
encrypt(s, plaintext, t, r) ==
    IF ~s.sendingChain.on
    THEN [err |-> "noSendingChain", envelope |-> NoEnvelope, sess |-> s]
    ELSE LET f == ratchetForward(s.sendingChain)
             messageNumber == f.messageNumber
             encryptionKey == hkdf(f.messageKey, ZeroSalt, MessageInfo(messageNumber), 1)
             authKey == hkdf(f.messageKey, ZeroSalt, MessageInfo(messageNumber), 2)
             dhPublicKey == exportPublicKey(s.dhKeyPair)
             nonce == r
             iv == r
             timestamp == t
             sequenceNumber == s.sendSequenceNumber
             associatedData ==
                 AssociatedData(messageNumber, dhPublicKey, timestamp, sequenceNumber, nonce)
             ciphertext == encryptAESGCM(encryptionKey, plaintext, iv, associatedData)
             mac == computeHMAC(authKey, <<associatedData, iv, ciphertext>>)
         IN  [err |-> "",
              envelope |-> [ciphertext |-> ciphertext, iv |-> iv, mac |-> mac,
                            messageNumber |-> messageNumber, dhPublicKey |-> dhPublicKey,
                            nonce |-> nonce, timestamp |-> timestamp,
                            sequenceNumber |-> sequenceNumber],
              sess |-> [s EXCEPT !.sendingChain = f.chain,
                                 !.sendSequenceNumber = @ + 1,
                                 !.messagesSent = @ + 1]]

\* A faulty decrypt body that tries the AES-GCM decryption before it
\* verifies the HMAC.
decryptBody_AEADFirst(s, e, freshKeyPair) ==
    LET receivedDHKey == importPublicKey(e.dhPublicKey)
        needDH == needsDHRatchet(s, receivedDHKey) \/ ~s.receivingChain.on
        s1 == IF needDH THEN receiveDHRatchet(s, receivedDHKey, freshKeyPair) ELSE s
        mk == getMessageKey(s1, e.messageNumber)
        encryptionKey == hkdf(mk.messageKey, ZeroSalt, MessageInfo(e.messageNumber), 1)
        authKey == hkdf(mk.messageKey, ZeroSalt, MessageInfo(e.messageNumber), 2)
        associatedData ==
            AssociatedData(e.messageNumber, e.dhPublicKey, e.timestamp,
                           e.sequenceNumber, e.nonce)
    IN  IF needDH /\ s.dhKeyPair = 0
        THEN [outcome |-> "noKeyPair", plaintext |-> "", sess |-> s]
        ELSE IF mk.err # ""
        THEN [outcome |-> mk.err, plaintext |-> "", sess |-> mk.sess]
        ELSE IF ~decryptAESGCMok(encryptionKey, e.ciphertext, e.iv, associatedData)
        THEN [outcome |-> "aead", plaintext |-> "", sess |-> mk.sess]
        ELSE IF ~verifyHMAC(authKey, <<associatedData, e.iv, e.ciphertext>>, e.mac)
        THEN [outcome |-> "hmac", plaintext |-> "", sess |-> mk.sess]
        ELSE [outcome |-> "ok",
              plaintext |-> decryptAESGCM(encryptionKey, e.ciphertext, e.iv, associatedData),
              sess |-> [mk.sess EXCEPT
                          !.receivedMessageNumbers = @ \cup {e.messageNumber},
                          !.messagesReceived = @ + 1,
                          !.lastReceivedSequence = e.sequenceNumber]]

\* What decrypt does once replay protection and the duplicate check let the
\* envelope through: DH ratchet step if needed, message key, HMAC, AES-GCM.
\* A throw keeps whatever the session had become by then.
decryptBody(s, e, freshKeyPair) ==
    LET receivedDHKey == importPublicKey(e.dhPublicKey)
        needDH == needsDHRatchet(s, receivedDHKey) \/ ~s.receivingChain.on
        s1 == IF needDH THEN receiveDHRatchet(s, receivedDHKey, freshKeyPair) ELSE s
        mk == getMessageKey(s1, e.messageNumber)
        encryptionKey == hkdf(mk.messageKey, ZeroSalt, MessageInfo(e.messageNumber), 1)
        authKey == hkdf(mk.messageKey, ZeroSalt, MessageInfo(e.messageNumber), 2)
        associatedData ==
            AssociatedData(e.messageNumber, e.dhPublicKey, e.timestamp,
                           e.sequenceNumber, e.nonce)
    IN  IF needDH /\ s.dhKeyPair = 0
        THEN [outcome |-> "noKeyPair", plaintext |-> "", sess |-> s]
        ELSE IF mk.err # ""
        THEN [outcome |-> mk.err, plaintext |-> "", sess |-> mk.sess]
        ELSE IF ~verifyHMAC(authKey, <<associatedData, e.iv, e.ciphertext>>, e.mac)
        THEN [outcome |-> "hmac", plaintext |-> "", sess |-> mk.sess]
        ELSE IF ~decryptAESGCMok(encryptionKey, e.ciphertext, e.iv, associatedData)
        THEN [outcome |-> "aead", plaintext |-> "", sess |-> mk.sess]
        ELSE [outcome |-> "ok",
              plaintext |-> decryptAESGCM(encryptionKey, e.ciphertext, e.iv, associatedData),
              sess |-> [mk.sess EXCEPT
                          !.receivedMessageNumbers = @ \cup {e.messageNumber},
                          !.messagesReceived = @ + 1,
                          !.lastReceivedSequence = e.sequenceNumber]]

\* A faulty decrypt that counts a message before it finds it was processed.
decrypt_CountsDuplicates(s, g, e, t, freshKeyPair) ==
    LET checked == s.enableReplayProtection /\ e.nonce # 0 /\ e.timestamp # 0
        v == IF checked THEN validateMessage(g, e.nonce, e.timestamp, t)
             ELSE [outcome |-> "ok", guard |-> g]
    IN  IF v.outcome # "ok"
        THEN [outcome |-> v.outcome, plaintext |-> "", sess |-> s, guard |-> v.guard]
        ELSE IF e.messageNumber \in s.receivedMessageNumbers
        THEN [outcome |-> "duplicate", plaintext |-> "",
              sess |-> [s EXCEPT !.messagesReceived = @ + 1], guard |-> v.guard]
        ELSE LET b == decryptBody(s, e, freshKeyPair)
             IN  [outcome |-> b.outcome, plaintext |-> b.plaintext,
                  sess |-> b.sess, guard |-> v.guard]

\* A faulty decrypt that marks the message number of an envelope as
\* processed when replay protection refuses it.
decrypt_MarksRefused(s, g, e, t, freshKeyPair) ==
    LET checked == s.enableReplayProtection /\ e.nonce # 0 /\ e.timestamp # 0
        v == IF checked THEN validateMessage(g, e.nonce, e.timestamp, t)
             ELSE [outcome |-> "ok", guard |-> g]
    IN  IF v.outcome # "ok"
        THEN [outcome |-> v.outcome, plaintext |-> "",
              sess |-> [s EXCEPT !.receivedMessageNumbers = @ \cup {e.messageNumber}],
              guard |-> v.guard]
        ELSE IF e.messageNumber \in s.receivedMessageNumbers
        THEN [outcome |-> "duplicate", plaintext |-> "", sess |-> s, guard |-> v.guard]
        ELSE LET b == decryptBody(s, e, freshKeyPair)
             IN  [outcome |-> b.outcome, plaintext |-> b.plaintext,
                  sess |-> b.sess, guard |-> v.guard]

\* decrypt(encryptedMessage) at time t.  Replay protection runs only when
\* the nonce and the timestamp are truthy (0 stands for a missing nonce).
decrypt(s, g, e, t, freshKeyPair) ==
    LET checked == s.enableReplayProtection /\ e.nonce # 0 /\ e.timestamp # 0
        v == IF checked THEN validateMessage(g, e.nonce, e.timestamp, t)
             ELSE [outcome |-> "ok", guard |-> g]
    IN  IF v.outcome # "ok"
        THEN [outcome |-> v.outcome, plaintext |-> "", sess |-> s, guard |-> v.guard]
        ELSE IF e.messageNumber \in s.receivedMessageNumbers
        THEN [outcome |-> "duplicate", plaintext |-> "", sess |-> s, guard |-> v.guard]
        ELSE LET b == decryptBody(s, e, freshKeyPair)
             IN  [outcome |-> b.outcome, plaintext |-> b.plaintext,
                  sess |-> b.sess, guard |-> v.guard]

(***************************************************************************)
(* The two peers and their environment.                                    *)
(***************************************************************************)
\* The key pairs the two peers are initialized with.
InitialKeyPair(p) == IF p = "A" THEN 1 ELSE 2

Envelopes(p) == {sent[p][i].envelope : i \in 1..Len(sent[p])}
\* e is an envelope the peer of p produced.
Genuine(p, e) == e \in Envelopes(Peer(p))
NumSent == Len(sent["A"]) + Len(sent["B"])
NumDelivered == Len(dlv["A"]) + Len(dlv["B"])
NumForged ==
    Cardinality({i \in 1..Len(dlv["A"]) : ~Genuine("A", dlv["A"][i])})
  + Cardinality({i \in 1..Len(dlv["B"]) : ~Genuine("B", dlv["B"][i])})

\* An envelope with one field changed on the way.
Forgeries(e) ==
    { [e EXCEPT !.ciphertext = <<"flip", @>>],
      [e EXCEPT !.iv = 0 - @],
      [e EXCEPT !.mac = <<"flip", @>>],
      [e EXCEPT !.messageNumber = @ + 1],
      [e EXCEPT !.dhPublicKey = exportPublicKey(0 - importPublicKey(@))],
      [e EXCEPT !.timestamp = 0],
      [e EXCEPT !.timestamp = @ - (maxNonceAge + 1)],
      [e EXCEPT !.timestamp = @ + (clockSkewTolerance + 1)],
      [e EXCEPT !.sequenceNumber = @ + 1],
      [e EXCEPT !.nonce = 0],
      [e EXCEPT !.nonce = 0 - @] }

Call(op, p, outcome, plaintext, e) ==
    [op |-> op, party |-> p, outcome |-> outcome, plaintext |-> plaintext,
     envelope |-> e]

X3Idle == [phase |-> "idle"]

\* The session store holds nothing: loadRatchetState resolves to null
\* (loads counts the loadRatchetState calls).
NoRecord == [found |-> FALSE, loads |-> 0]

\* No sender certificate has been issued.
NoCertificate == [issued |-> 0]

\* The encrypt calls that run split at their awaits, and one not yet made:
\* pc is the await the call stands at, the other fields are its locals.
\* No SealedEnvelope has been serialized and deserialize has not been called.
NoEnvelopeCall ==
    [op |-> "none", senderCertificate |-> <<>>, encryptedMessage |-> <<>>,
     serialized |-> <<>>, bytes |-> <<>>,
     result |-> [err |-> "", senderCertificate |-> <<>>, encryptedMessage |-> <<>>]]

\* The root key a SymmetricRatchet is constructed with.
SymmetricRootKey == <<"rootKey">>
\* new SymmetricRatchet(rootKey)
NewSymmetricRatchet(rootKey) ==
    [chainKey |-> rootKey, messageNumber |-> 0, messageKeys |-> <<>>]
\* A property that is null or not there; what Map.get returns for a key
\* the Map does not hold.
Undefined == <<"undefined">>
\* No method of the SymmetricRatchet has been called.
NoSymCall == [op |-> "new", messageNumber |-> 0, returned |-> Undefined]

CallId == 1..MaxCalls
NoCall == [pc |-> "idle", party |-> "A", plaintext |-> "", chainKey |-> NoKeyTerm,
           messageKey |-> NoKeyTerm, messageNumber |-> 0, dhPublicKey |-> 0,
           nonce |-> 0, timestamp |-> 0, sequenceNumber |-> 0]

\* new SodiumCrypto(): not ready until initialize() has run.
SodiumCrypto == [ready |-> FALSE]

\* The sessions as DoubleRatchetDemo.initialize sets them up: both from the
\* X3DH shared secret, Alice (initiator) given Bob's public key, Bob given null.
Init ==
    /\ sess = [p \in Party |->
                 initialize(NewDHRatchet(SharedSecret, p = "A"), InitialKeyPair(p),
                            IF p = "A" THEN InitialKeyPair("B") ELSE 0)]
    /\ rp = [p \in Party |-> NewReplayProtection]
    /\ now = 1000000
    /\ sent = [p \in Party |-> <<>>]
    /\ dlv = [p \in Party |-> <<>>]
    /\ rand = 1
    /\ nextKey = 3
    /\ last = Call("initialize", "A", "ok", "", NoEnvelope)
    /\ ticks = 0
    /\ x3 = X3Idle
    /\ admitted = {}
    /\ ss = SodiumCrypto
    /\ cert = NoCertificate
    /\ store = [p \in Party |-> NoRecord]
    /\ calls = [c \in CallId |-> NoCall]
    /\ env = NoEnvelopeCall
    /\ sym = NewSymmetricRatchet(SymmetricRootKey)
    /\ symCall = NoSymCall

\* p.encrypt(plaintext).
Encrypt(p, maxMsgs) ==
    /\ NumSent < maxMsgs
    /\ \E plaintext \in Plaintext(NumSent) :
          LET r == encrypt(sess[p], plaintext, now, rand)
          IN  /\ sess' = [sess EXCEPT ![p] = r.sess]
              /\ sent' = IF r.err = "" 
                         THEN [sent EXCEPT ![p] =
                                 Append(@, [envelope |-> r.envelope, plaintext |-> plaintext])]
                         ELSE sent
              /\ rand' = IF r.err = "" THEN rand + 1 ELSE rand
              /\ last' = Call("encrypt", p, IF r.err = "" THEN "ok" ELSE r.err,
                              plaintext, r.envelope)
    /\ UNCHANGED <<rp, now, dlv, nextKey, ticks, x3, admitted, ss, cert, store, calls, env, sym, symCall>>

\* p.decrypt(e).
DecryptCall(p, e) ==
    LET r == decrypt(sess[p], rp[p], e, now, nextKey)
    IN  /\ sess' = [sess EXCEPT ![p] = r.sess]
        /\ rp' = [rp EXCEPT ![p] = r.guard]
        /\ dlv' = [dlv EXCEPT ![p] = Append(@, e)]
        /\ nextKey' = IF r.sess.dhKeyPair = nextKey THEN nextKey + 1 ELSE nextKey
        /\ last' = Call("decrypt", p, r.outcome, r.plaintext, e)
        /\ UNCHANGED <<now, sent, rand, ticks, x3, admitted, ss, cert, store, calls, env, sym, symCall>>

\* An envelope of the peer reaches p: any of them, at any time, any number of times.
Deliver(p, maxDeliver) ==
    /\ NumDelivered < maxDeliver
    /\ \E e \in Envelopes(Peer(p)) : DecryptCall(p, e)

\* A modified envelope reaches p.
DeliverForged(p) ==
    /\ NumDelivered < MaxDeliverForged
    /\ NumForged < MaxForged
    /\ \E g \in Envelopes(Peer(p)) : \E e \in Forgeries(g) : DecryptCall(p, e)

\* Time passes.
Tick ==
    /\ ticks < MaxTicks
    /\ \E d \in {maxNonceAge + 1} : now' = now + d
    /\ ticks' = ticks + 1
    /\ last' = Call("tick", "A", "ok", "", NoEnvelope)
    /\ UNCHANGED <<sess, rp, sent, dlv, rand, nextKey, x3, admitted, ss, cert, store, calls, env, sym, symCall>>

\* The cleanup timer of p's guard fires.
Cleanup(p) ==
    /\ rp[p].cleanupTimer
    /\ rp' = [rp EXCEPT ![p] = cleanupOldNonces(@, now)]
    /\ last' = Call("cleanup", p, "ok", "", NoEnvelope)
    /\ UNCHANGED <<sess, now, sent, dlv, rand, nextKey, ticks, x3, admitted, ss, cert, store, calls, env, sym, symCall>>

\* The peers talk over a network that delays, reorders and repeats envelopes.
Next ==
    \/ \E p \in Party : Encrypt(p, MaxMsgs)
    \/ \E p \in Party : Deliver(p, MaxDeliver)
    \/ Tick
    \/ \E p \in Party : Cleanup(p)

Spec == Init /\ [][Next]_vars

\* The same, with a network that also modifies envelopes.
NextForged ==
    \/ \E p \in Party : Encrypt(p, MaxMsgsForged)
    \/ \E p \in Party : Deliver(p, MaxDeliverForged)
    \/ \E p \in Party : DeliverForged(p)

SpecForged == Init /\ [][NextForged]_vars

(***************************************************************************)
(* Properties of the conversation.                                         *)
(***************************************************************************)
\* p's decrypt has been given the first envelopes of its peer, once each,
\* in the order they were sent.
InOrder(p) ==
    /\ Len(dlv[p]) <= Len(sent[Peer(p)])
    /\ \A i \in 1..Len(dlv[p]) : dlv[p][i] = sent[Peer(p)][i].envelope
\* p's decrypt has been given envelopes of its peer, none modified, none twice.
OnceEach(p) ==
    /\ \A i \in 1..Len(dlv[p]) : Genuine(p, dlv[p][i])
    /\ \A i, j \in 1..Len(dlv[p]) : i # j => dlv[p][i] # dlv[p][j]
\* Only A has sent and only B has received.
OneWay == sent["B"] = <<>> /\ dlv["A"] = <<>>
\* The plaintext that was encrypted into envelope e of p's peer.
PlaintextOf(p, e) ==
    LET i == CHOOSE i \in 1..Len(sent[Peer(p)]) : sent[Peer(p)][i].envelope = e
    IN  sent[Peer(p)][i].plaintext
\* The last call was a decrypt by p (the clock has not moved since).
Decrypted(p) == last.op = "decrypt" /\ last.party = p
\* e is inside the acceptance window of the replay guard.
Fresh(e) ==
    /\ now - e.timestamp <= maxNonceAge
    /\ now - e.timestamp >= 0 - clockSkewTolerance
\* The last decrypt returned the plaintext of its envelope.
ReturnedPlaintext(p) ==
    /\ last.outcome = "ok"
    /\ last.plaintext = PlaintextOf(p, last.envelope)

C2_RoundTripAlternating ==
    \A p \in Party :
        (Decrypted(p) /\ InOrder("A") /\ InOrder("B") /\ Fresh(last.envelope))
            => ReturnedPlaintext(p)

\* C3 as stated: A sends on one chain and B is given the envelopes in any
\* order, once each; then every decrypt returns the plaintext of its envelope.
C3_OutOfOrder_AsStated ==
    (Decrypted("B") /\ OneWay /\ OnceEach("B")) => ReturnedPlaintext("B")

\* C3, amended: A sends messages 0..k on one sending chain and B is given
\* them in any order, once each; every decrypt of an envelope that is inside
\* the replay guard's acceptance window at the time of the call returns the
\* plaintext of that envelope.
C3_OutOfOrder ==
    (Decrypted("B") /\ OneWay /\ OnceEach("B") /\ Fresh(last.envelope))
        => ReturnedPlaintext("B")

\* B has decrypted, from the skipped-key cache, an envelope that arrived
\* after a later one.
C3_Witness ==
    /\ Decrypted("B") /\ OneWay /\ OnceEach("B") /\ Fresh(last.envelope)
    /\ last.outcome = "ok"
    /\ Len(dlv["B"]) >= 3
    /\ last.envelope.messageNumber < dlv["B"][1].messageNumber

\* This step is a decrypt call of p (its envelope is last'.envelope).
DecryptStep(p) ==
    /\ last'.op = "decrypt" /\ last'.party = p
    /\ dlv'[p] = Append(dlv[p], last'.envelope)
\* p's decrypt was given e before.
GivenBefore(p, e) == \E i \in 1..Len(dlv[p]) : dlv[p][i] = e
\* p's guard tracks the nonce of e.
Tracked(p, e) == bufferToHex(e.nonce) \in rp[p].receivedNonces
\* This decrypt step of p was refused as a replay, and counted as one.
RefusedAsReplay(p) ==
    /\ last'.outcome = "replay"
    /\ rp'[p].stats.replayDetected = rp[p].stats.replayDetected + 1
    /\ rp'[p].stats.messagesRejected = rp[p].stats.messagesRejected + 1
    /\ rp'[p].stats.messagesAccepted = rp[p].stats.messagesAccepted
    /\ sess'[p].messagesReceived = sess[p].messagesReceived

\* C4 as stated: whenever decrypt is given an envelope it was given before,
\* the call fails with the replay error, replayDetected and messagesRejected
\* grow by one, messagesAccepted and messagesReceived do not grow.
C4_ReplayRejected_AsStated ==
    [][\A p \in Party :
          (DecryptStep(p) /\ GivenBefore(p, last'.envelope)) => RefusedAsReplay(p)]_vars

\* C4, amended: when decrypt is given an envelope it was given before, and
\* the guard admitted its nonce then and still tracks it (no sweep has
\* evicted it, no reset), the call fails with the replay error,
\* replayDetected and messagesRejected grow by one, messagesAccepted and
\* messagesReceived do not grow.
C4_ReplayRejected ==
    [][\A p \in Party :
          (DecryptStep(p) /\ GivenBefore(p, last'.envelope)
             /\ last'.envelope.timestamp # 0 /\ Tracked(p, last'.envelope))
          => RefusedAsReplay(p)]_vars

\* An envelope has been refused as a replay after it had been decrypted.
C4_Witness ==
    \E p \in Party :
        /\ Decrypted(p) /\ last.outcome = "replay"
        /\ rp[p].stats.replayDetected = 1
        /\ sess[p].messagesReceived = 1
        /\ Len(dlv[p]) = 2 /\ dlv[p][1] = dlv[p][2]

\* C5: decrypt of an envelope in which the ciphertext, the iv, the mac or a
\* header field (messageNumber, dhPublicKey, timestamp, sequenceNumber,
\* nonce) was changed fails, and returns no plaintext.
C5_TamperDetected ==
    \A p \in Party :
        (Decrypted(p) /\ ~Genuine(p, last.envelope))
            => (last.outcome # "ok" /\ last.plaintext = "")

\* A modified envelope got as far as the HMAC check and failed it.
C5_Witness ==
    \E p \in Party :
        Decrypted(p) /\ ~Genuine(p, last.envelope) /\ last.outcome = "hmac"

\* C6: decrypt of an envelope whose timestamp is older than maxAge, and
\* whose nonce the guard does not track, fails with the too-old error,
\* tooOldDetected grows by one and the nonce is not recorded.
C6_StaleRejected ==
    [][\A p \in Party :
          (DecryptStep(p) /\ now - last'.envelope.timestamp > maxNonceAge
             /\ ~Tracked(p, last'.envelope))
          => /\ last'.outcome = "tooOld"
             /\ rp'[p].stats.tooOldDetected = rp[p].stats.tooOldDetected + 1
             /\ bufferToHex(last'.envelope.nonce) \notin rp'[p].receivedNonces]_vars

\* The key a chain started from: its chain key with the ratchetForward steps undone.
ChainSeed(t) == IF t[1] = "hmac2" THEN t[2] ELSE t
\* Key t is a function of key k: k is t, or t was derived (HMAC under a key,
\* HKDF of key material under a salt) from something that is.
RECURSIVE Uses(_, _)
Uses(t, k) ==
    \/ t = k
    \/ t[1] = "hmac" /\ Uses(t[2], k)
    \/ t[1] = "hmac2" /\ (Uses(t[2], k) \/ (k[1] = "hmac2" /\ k[2] = t[2] /\ k[3] < t[3]))
    \/ t[1] = "hkdf" /\ (Uses(t[2], k) \/ Uses(t[3], k))
\* The chain keys session s holds.
ChainKeys(s) ==
    {c.chainKey : c \in {c \in {s.sendingChain, s.receivingChain} : c.on}}
\* This step made p perform a DH ratchet step (it has a new key pair).
DHRatchetStep(p) == DecryptStep(p) /\ sess'[p].dhKeyPair # sess[p].dhKeyPair

\* C9: in every DH ratchet step the new key pair is fresh, the new receiving
\* chain key is HKDF(ECDH(local, new remote key)) salted with the root key,
\* the new sending chain key is HKDF(ECDH(fresh pair, remote key)) salted with
\* the root key that step produced, and neither is a function of a chain key
\* that existed before the step (the receiving chain being, as it must, the
\* chain the peer sends on).
C9_PostCompromise ==
    [][\A p \in Party :
          DHRatchetStep(p) =>
            LET old == sess[p]
                new == sess'[p]
                remote == new.dhRemotePublicKey
                dh1 == performECDH(old.dhKeyPair, remote)
                root1 == hkdf(dh1, old.rootKey, ChainInfo, 1)
                dh2 == performECDH(new.dhKeyPair, remote)
            IN  /\ new.dhKeyPair >= nextKey
                /\ remote = importPublicKey(last'.envelope.dhPublicKey)
                /\ ChainSeed(new.receivingChain.chainKey) = hkdf(dh1, old.rootKey, ChainInfo, 2)
                /\ new.sendingChain.chainKey = hkdf(dh2, root1, ChainInfo, 2)
                /\ new.rootKey = hkdf(dh2, root1, ChainInfo, 1)
                /\ \A k \in ChainKeys(sess["A"]) \cup ChainKeys(sess["B"]) :
                      ~Uses(new.sendingChain.chainKey, k)
                /\ \A k \in ChainKeys(old) : ~Uses(new.receivingChain.chainKey, k)]_vars

\* Both parties have performed a DH ratchet step since they were set up, each
\* with a fresh key pair, A's being the second step it takes part in.
C9_Witness ==
    /\ sess["A"].dhKeyPair > 2 /\ sess["B"].dhKeyPair > 2
    /\ Decrypted("A") /\ last.outcome = "ok"
    /\ sess["A"].sendingChain.messageNumber = 0

(***************************************************************************)
(* A ReplayProtection guard used on its own: validateMessage is called     *)
(* with any nonce and any timestamp around the acceptance window, the      *)
(* clock moves, the cleanup timer fires, reset is called.  (The guard is   *)
(* rp["B"].)                                                               *)
(***************************************************************************)
\* Timestamps at the edges of the acceptance window, seen from time t.
Timestamps(t) ==
    { t, t - maxNonceAge, t - (maxNonceAge + 1),
      t + clockSkewTolerance, t + (clockSkewTolerance + 1) }

NumValidated ==
    LET st == rp["B"].stats IN st.messagesAccepted + st.messagesRejected

Validate ==
    /\ NumValidated < MaxValidate
    /\ \E nonce \in 1..MaxNonces : \E timestamp \in Timestamps(now) :
          LET v == validateMessage(rp["B"], nonce, timestamp, now)
          IN  /\ rp' = [rp EXCEPT !["B"] = v.guard]
              /\ admitted' = IF v.outcome = "ok"
                             THEN admitted \cup {<<nonce, timestamp>>}
                             ELSE admitted
              /\ last' = Call("validate", "B", v.outcome, "",
                              [NoEnvelope EXCEPT !.nonce = nonce, !.timestamp = timestamp])
    /\ UNCHANGED <<sess, now, sent, dlv, rand, nextKey, ticks, x3, ss, cert, store, calls, env, sym, symCall>>

Reset ==
    /\ rp["B"].receivedNonces # {}
    /\ rp' = [rp EXCEPT !["B"] = reset(@)]
    /\ admitted' = {}
    /\ last' = Call("reset", "B", "ok", "", NoEnvelope)
    /\ UNCHANGED <<sess, now, sent, dlv, rand, nextKey, ticks, x3, ss, cert, store, calls, env, sym, symCall>>

NextGuard ==
    \/ Validate
    \/ Tick
    \/ Cleanup("B")
    \/ Reset

SpecGuard == Init /\ [][NextGuard]_vars

\* C10: validateMessage never admits a nonce it has admitted before (since
\* the last reset), whatever the timestamps.
C10_NonceAdmittedOnce ==
    [][(last'.op = "validate" /\ last'.outcome = "ok")
          => \A a \in admitted : a[1] # last'.envelope.nonce]_vars

(***************************************************************************)
(* X3DH (Ecies.js).  A key pair is the integer that names it; null is 0    *)
(* for a key pair and -1 for a one-time prekey id (ids start at 0).        *)
(***************************************************************************)
null == -1

\* concatBuffers(...buffers): the buffers one after the other.  DH outputs
\* have a fixed length, so the concatenation determines its parts.
concatBuffers(buffers) == <<"concat", buffers>>

X3DHInfo == <<"X3DH-SharedSecret">>

\* new X3DHKeyBundle()
NewX3DHKeyBundle ==
    [identityKeyPair |-> 0, signedPreKeyPair |-> 0, oneTimePreKeys |-> <<>>, createdAt |-> 0]

\* bundle.generate(oneTimePreKeyCount); the key pairs generateECDHKeyPair
\* returns are k, k + 1, ...
generate(bundle, oneTimePreKeyCount, k, t) ==
    [identityKeyPair  |-> k,
     signedPreKeyPair |-> k + 1,
     oneTimePreKeys   |-> [i \in 1..oneTimePreKeyCount |-> [id |-> i - 1, keyPair |-> k + 1 + i]],
     createdAt        |-> t]

\* bundle.exportPublicBundle()
exportPublicBundle(bundle) ==
    [identityKey   |-> exportPublicKey(bundle.identityKeyPair),
     signedPreKey  |-> [id |-> 0, publicKey |-> exportPublicKey(bundle.signedPreKeyPair),
                        timestamp |-> bundle.createdAt],
     oneTimePreKeys |-> [i \in 1..Len(bundle.oneTimePreKeys) |->
                            [id |-> bundle.oneTimePreKeys[i].id,
                             publicKey |-> exportPublicKey(bundle.oneTimePreKeys[i].keyPair)]]]

\* A faulty consumeOneTimePreKey that finds the prekey and leaves it in the bundle.
consumeOneTimePreKey_NoSplice(bundle, id) ==
    LET opks  == bundle.oneTimePreKeys
        found == {i \in 1..Len(opks) : opks[i].id = id}
    IN  IF found = {}
        THEN [keyPair |-> 0, bundle |-> bundle]
        ELSE [keyPair |-> opks[CHOOSE i \in found : \A j \in found : i <= j].keyPair,
              bundle  |-> bundle]

\* bundle.consumeOneTimePreKey(id): the key pair (0 for the null it returns
\* when no prekey has this id) and the bundle after the splice.
consumeOneTimePreKey(bundle, id) ==
    LET opks  == bundle.oneTimePreKeys
        found == {i \in 1..Len(opks) : opks[i].id = id}
    IN  IF found = {}
        THEN [keyPair |-> 0, bundle |-> bundle]
        ELSE LET index == CHOOSE i \in found : \A j \in found : i <= j
             IN  [keyPair |-> opks[index].keyPair,
                  bundle  |-> [bundle EXCEPT !.oneTimePreKeys =
                                 [i \in 1..(Len(opks) - 1) |->
                                     IF i < index THEN opks[i] ELSE opks[i + 1]]]]

\* new X3DHInitiator(identityKeyPair).deriveSharedSecret(bobPublicBundle);
\* ephemeralKeyPair is the key pair generateECDHKeyPair returns.
X3DHInitiator_deriveSharedSecret(identityKeyPair, bobPublicBundle, ephemeralKeyPair) ==
    LET bobIK  == importPublicKey(bobPublicBundle.identityKey)
        bobSPK == importPublicKey(bobPublicBundle.signedPreKey.publicKey)
        dh1    == performECDH(identityKeyPair, bobSPK)
        dh2    == performECDH(ephemeralKeyPair, bobIK)
        dh3    == performECDH(ephemeralKeyPair, bobSPK)
        hasOPK == Len(bobPublicBundle.oneTimePreKeys) > 0
        selectedOPK == bobPublicBundle.oneTimePreKeys[1]
        dhOutputs ==
            IF hasOPK
            THEN concatBuffers(<<dh1, dh2, dh3,
                     performECDH(ephemeralKeyPair, importPublicKey(selectedOPK.publicKey))>>)
            ELSE concatBuffers(<<dh1, dh2, dh3>>)
    IN  [sharedSecret       |-> hkdf(dhOutputs, ZeroSalt, X3DHInfo, 1),
         ephemeralPublicKey |-> exportPublicKey(ephemeralKeyPair),
         usedOPKId          |-> IF hasOPK THEN selectedOPK.id ELSE null]

\* A faulty responder that concatenates DH2 and DH3 in the other order.
X3DHResponder_deriveSharedSecret_Swapped(keyBundle, aliceIdentityKeyJWK, aliceEphemeralKeyJWK, usedOPKId) ==
    LET aliceIK  == importPublicKey(aliceIdentityKeyJWK)
        aliceEK  == importPublicKey(aliceEphemeralKeyJWK)
        dh1      == performECDH(keyBundle.signedPreKeyPair, aliceIK)
        dh2      == performECDH(keyBundle.identityKeyPair, aliceEK)
        dh3      == performECDH(keyBundle.signedPreKeyPair, aliceEK)
        consumed == consumeOneTimePreKey(keyBundle, usedOPKId)
    IN  IF usedOPKId = null
        THEN [err |-> "", keyBundle |-> keyBundle,
              sharedSecret |-> hkdf(concatBuffers(<<dh1, dh3, dh2>>), ZeroSalt, X3DHInfo, 1)]
        ELSE IF consumed.keyPair = 0
        THEN [err |-> "opkNotFound", keyBundle |-> consumed.bundle, sharedSecret |-> NoKeyTerm]
        ELSE [err |-> "", keyBundle |-> consumed.bundle,
              sharedSecret |-> hkdf(concatBuffers(<<dh1, dh3, dh2,
                                        performECDH(consumed.keyPair, aliceEK)>>),
                                    ZeroSalt, X3DHInfo, 1)]

\* new X3DHResponder(keyBundle).deriveSharedSecret(aliceIdentityKeyJWK,
\* aliceEphemeralKeyJWK, usedOPKId): the error it throws ("" for none), the
\* secret it returns, and the bundle afterwards.
X3DHResponder_deriveSharedSecret(keyBundle, aliceIdentityKeyJWK, aliceEphemeralKeyJWK, usedOPKId) ==
    LET aliceIK  == importPublicKey(aliceIdentityKeyJWK)
        aliceEK  == importPublicKey(aliceEphemeralKeyJWK)
        dh1      == performECDH(keyBundle.signedPreKeyPair, aliceIK)
        dh2      == performECDH(keyBundle.identityKeyPair, aliceEK)
        dh3      == performECDH(keyBundle.signedPreKeyPair, aliceEK)
        consumed == consumeOneTimePreKey(keyBundle, usedOPKId)
    IN  IF usedOPKId = null
        THEN [err |-> "", keyBundle |-> keyBundle,
              sharedSecret |-> hkdf(concatBuffers(<<dh1, dh2, dh3>>), ZeroSalt, X3DHInfo, 1)]
        ELSE IF consumed.keyPair = 0
        THEN [err |-> "opkNotFound", keyBundle |-> consumed.bundle, sharedSecret |-> NoKeyTerm]
        ELSE [err |-> "", keyBundle |-> consumed.bundle,
              sharedSecret |-> hkdf(concatBuffers(<<dh1, dh2, dh3,
                                        performECDH(consumed.keyPair, aliceEK)>>),
                                    ZeroSalt, X3DHInfo, 1)]
(***************************************************************************)
(* The X3DH exchange as the demo runs it (Ratchetstorage.js, initialize):  *)
(* Bob generates his bundle; an initiator creates an identity key pair and *)
(* fetches Bob's public bundle, derives the secret, and hands its identity *)
(* key, ephemeral key and a one-time prekey id to Bob's responder.         *)
(***************************************************************************)
Initiators == 1..MaxInitiators

\* The key pairs initiator i generates: its identity key pair (j = 1) and
\* its ephemeral key pair (j = 2), different from every other key pair.
InitiatorKeyPair(i, j) == 1000 * i + j

NoInitiator ==
    [stage |-> "new", identityKeyPair |-> 0, bobPublicBundle |-> exportPublicBundle(NewX3DHKeyBundle),
     sharedSecret |-> NoKeyTerm, ephemeralPublicKey |-> exportPublicKey(0), usedOPKId |-> null]

\* const bobBundle = await new X3DHKeyBundle().generate(n)
X3Generate ==
    /\ x3.phase = "idle"
    /\ \E oneTimePreKeyCount \in 0..MaxOPK :
          /\ x3' = [phase     |-> "ready",
                    bundle    |-> generate(NewX3DHKeyBundle, oneTimePreKeyCount, nextKey, now),
                    initiator |-> [i \in Initiators |-> NoInitiator],
                    responses |-> <<>>]
          /\ nextKey' = nextKey + 2 + oneTimePreKeyCount
    /\ UNCHANGED <<sess, rp, now, sent, dlv, rand, last, ticks, admitted, ss, cert, store, calls, env, sym, symCall>>

\* An initiator is created and fetches bobBundle.exportPublicBundle().
X3Fetch(i) ==
    /\ x3.phase = "ready"
    /\ x3.initiator[i].stage = "new"
    /\ x3' = [x3 EXCEPT !.initiator[i] =
                 [@ EXCEPT !.stage = "fetched",
                           !.identityKeyPair = InitiatorKeyPair(i, 1),
                           !.bobPublicBundle = exportPublicBundle(x3.bundle)]]
    /\ UNCHANGED <<sess, rp, now, sent, dlv, rand, nextKey, last, ticks, admitted, ss, cert, store, calls, env, sym, symCall>>

\* aliceInitiator.deriveSharedSecret(bobPublicBundle)
X3InitiatorDerive(i) ==
    /\ x3.phase = "ready"
    /\ x3.initiator[i].stage = "fetched"
    /\ LET a == x3.initiator[i]
           d == X3DHInitiator_deriveSharedSecret(a.identityKeyPair, a.bobPublicBundle,
                                                 InitiatorKeyPair(i, 2))
       IN  x3' = [x3 EXCEPT !.initiator[i] =
                     [@ EXCEPT !.stage = "derived",
                               !.sharedSecret = d.sharedSecret,
                               !.ephemeralPublicKey = d.ephemeralPublicKey,
                               !.usedOPKId = d.usedOPKId]]
    /\ UNCHANGED <<sess, rp, now, sent, dlv, rand, nextKey, last, ticks, admitted, ss, cert, store, calls, env, sym, symCall>>

\* bobResponder.deriveSharedSecret(aliceIKPublic, ephemeralPublicKey, usedOPKId)
\* with the keys of initiator i and any one-time prekey id.
X3ResponderDerive(i) ==
    /\ x3.phase = "ready"
    /\ x3.initiator[i].stage = "derived"
    /\ Len(x3.responses) < MaxResponses
    /\ \E usedOPKId \in {null} \cup (0..(MaxOPK - 1)) :
          LET a == x3.initiator[i]
              d == X3DHResponder_deriveSharedSecret(x3.bundle,
                       exportPublicKey(a.identityKeyPair), a.ephemeralPublicKey, usedOPKId)
          IN  x3' = [x3 EXCEPT !.bundle = d.keyBundle,
                               !.responses = Append(@,
                                   [initiator |-> i, usedOPKId |-> usedOPKId,
                                    err |-> d.err, sharedSecret |-> d.sharedSecret])]
    /\ UNCHANGED <<sess, rp, now, sent, dlv, rand, nextKey, last, ticks, admitted, ss, cert, store, calls, env, sym, symCall>>

NextX3DH ==
    \/ X3Generate
    \/ \E i \in Initiators : X3Fetch(i)
    \/ \E i \in Initiators : X3InitiatorDerive(i)
    \/ \E i \in Initiators : X3ResponderDerive(i)

SpecX3DH == Init /\ [][NextX3DH]_vars

\* This step is a deriveSharedSecret call of the responder; the call is
\* the last entry of x3'.responses.
X3ResponderStep ==
    /\ x3.phase = "ready"
    /\ x3'.phase = "ready"
    /\ Len(x3'.responses) = Len(x3.responses) + 1

\* The ids of the one-time prekeys a bundle holds, and those it publishes.
HeldIds(bundle) == {bundle.oneTimePreKeys[i].id : i \in 1..Len(bundle.oneTimePreKeys)}
PublishedIds(bundle) ==
    LET pub == exportPublicBundle(bundle).oneTimePreKeys IN {pub[i].id : i \in 1..Len(pub)}
\* The ids a successful deriveSharedSecret of the responder has used.
ConsumedIds(x) ==
    {x.responses[k].usedOPKId : k \in {j \in 1..Len(x.responses) :
         x.responses[j].err = "" /\ x.responses[j].usedOPKId # null}}

\* C7: when the responder is given the initiator's identity key, ephemeral
\* key and the usedOPKId the initiator returned, and its bundle still holds
\* the prekey the initiator used, it returns the initiator's secret.
C7_X3DHAgreement ==
    [][X3ResponderStep =>
         LET r == x3'.responses[Len(x3'.responses)]
             a == x3.initiator[r.initiator]
         IN  (r.usedOPKId = a.usedOPKId
                /\ (r.usedOPKId = null \/ r.usedOPKId \in HeldIds(x3.bundle)))
             => (r.err = "" /\ r.sharedSecret = a.sharedSecret)]_vars

\* Both sides agreed once on four DH outputs and once on three.
C7_Witness ==
    /\ x3.phase = "ready"
    /\ \E k1, k2 \in 1..Len(x3.responses) :
          LET r1 == x3.responses[k1]
              r2 == x3.responses[k2]
          IN  /\ r1.err = "" /\ r1.usedOPKId # null
              /\ r1.usedOPKId = x3.initiator[r1.initiator].usedOPKId
              /\ r1.sharedSecret = x3.initiator[r1.initiator].sharedSecret
              /\ r2.err = "" /\ r2.usedOPKId = null
              /\ x3.initiator[r2.initiator].usedOPKId = null
              /\ r2.sharedSecret = x3.initiator[r2.initiator].sharedSecret
              /\ r1.sharedSecret # r2.sharedSecret

\* C8: a deriveSharedSecret of the responder that names a one-time prekey
\* id an earlier successful call has used fails, returns no secret and
\* leaves the bundle alone; a successful call removes exactly the prekey it
\* names; a used id is never published again.
C8_OPKConsumedOnce ==
    [][X3ResponderStep =>
         LET r == x3'.responses[Len(x3'.responses)]
         IN  /\ r.usedOPKId \in ConsumedIds(x3)
                  => (r.err # "" /\ r.sharedSecret = NoKeyTerm /\ x3'.bundle = x3.bundle)
             /\ (r.err = "" /\ r.usedOPKId # null)
                  => /\ HeldIds(x3'.bundle) = HeldIds(x3.bundle) \ {r.usedOPKId}
                     /\ Len(x3'.bundle.oneTimePreKeys) = Len(x3.bundle.oneTimePreKeys) - 1
             /\ ConsumedIds(x3') \cap PublishedIds(x3'.bundle) = {}]_vars

\* A second initiator that fetched the same bundle named the id the first
\* one had used and was refused, while another prekey is still published.
C8_Witness ==
    /\ x3.phase = "ready"
    /\ \E k1, k2 \in 1..Len(x3.responses) :
          LET r1 == x3.responses[k1]
              r2 == x3.responses[k2]
          IN  /\ k1 < k2
              /\ r1.initiator # r2.initiator
              /\ r1.err = "" /\ r1.usedOPKId # null
              /\ r2.usedOPKId = r1.usedOPKId
              /\ x3.initiator[r2.initiator].usedOPKId = r1.usedOPKId
              /\ r2.err = "opkNotFound"
    /\ PublishedIds(x3.bundle) # {}
(***************************************************************************)
(* Sessions set up in any way: each party constructed as initiator or as   *)
(* responder, and initialized with or without the peer's public key.       *)
(***************************************************************************)
InitAny ==
    /\ \E isInitiator \in [Party -> BOOLEAN] :
       \E hasRemote \in [Party -> BOOLEAN] :
          sess = [p \in Party |->
                    initialize(NewDHRatchet(SharedSecret, isInitiator[p]), InitialKeyPair(p),
                               IF hasRemote[p] THEN InitialKeyPair(Peer(p)) ELSE 0)]
    /\ rp = [p \in Party |-> NewReplayProtection]
    /\ now = 1000000
    /\ sent = [p \in Party |-> <<>>]
    /\ dlv = [p \in Party |-> <<>>]
    /\ rand = 1
    /\ nextKey = 3
    /\ last = Call("initialize", "A", "ok", "", NoEnvelope)
    /\ ticks = 0
    /\ x3 = X3Idle
    /\ admitted = {}
    /\ ss = SodiumCrypto
    /\ cert = NoCertificate
    /\ store = [p \in Party |-> NoRecord]
    /\ calls = [c \in CallId |-> NoCall]
    /\ env = NoEnvelopeCall
    /\ sym = NewSymmetricRatchet(SymmetricRootKey)
    /\ symCall = NoSymCall

NextAny ==
    \/ \E p \in Party : Encrypt(p, MaxMsgsAny)
    \/ \E p \in Party : Deliver(p, MaxDeliverAny)

SpecAny == InitAny /\ [][NextAny]_vars

\* This step is an encrypt call of p.
EncryptStep(p) == last'.op = "encrypt" /\ last'.party = p

\* C11: encrypt on a session that has no sending chain fails with an error,
\* returns no envelope and leaves every field of the session unchanged.
C11_EncryptNeedsSendingChain ==
    [][\A p \in Party :
          (EncryptStep(p) /\ ~sess[p].sendingChain.on)
             => /\ last'.outcome = "noSendingChain"
                /\ last'.envelope = NoEnvelope
                /\ sess'[p] = sess[p]
                /\ sent' = sent]_vars

\* An initiator that was initialized without a remote key was refused, and
\* so was a responder that has not decrypted anything.
C11_Witness ==
    \E p \in Party :
        /\ last.op = "encrypt" /\ last.party = p /\ last.outcome = "noSendingChain"
        /\ sess[p].isInitiator /\ sess[p].dhRemotePublicKey = 0
        /\ ~sess[Peer(p)].isInitiator /\ ~sess[Peer(p)].sendingChain.on
        /\ sess[p].sendSequenceNumber = 0 /\ sess[p].messagesSent = 0

\* C12: right after initialize a session has a sending chain exactly when
\* it is the initiator and was given the remote key; a session without a
\* sending chain gets one only in a decrypt that performs a DH ratchet step;
\* a session that has a receiving chain has a sending chain.
C12_SessionStateMachine ==
    /\ [](\A p \in Party :
            /\ last.op = "initialize"
                 => (sess[p].sendingChain.on
                       <=> (sess[p].isInitiator /\ sess[p].dhRemotePublicKey # 0))
            /\ sess[p].receivingChain.on => sess[p].sendingChain.on)
    /\ [][\A p \in Party :
            (~sess[p].sendingChain.on /\ sess'[p].sendingChain.on)
               => /\ DecryptStep(p)
                  /\ sess'[p].dhKeyPair # sess[p].dhKeyPair
                  /\ sess'[p].receivingChain.on]_vars

\* A responder has got its sending chain in its first decrypt.
C12_Witness ==
    /\ Decrypted("B") /\ last.outcome = "ok"
    /\ ~sess["B"].isInitiator
    /\ sess["B"].messagesReceived = 1
    /\ sess["B"].sendingChain.on /\ sess["B"].receivingChain.on
(***************************************************************************)
(* Sealed Sender (SealedSenderV2.js) over the libsodium wrapper            *)
(* SodiumCrypto.  Byte strings are sequences of bytes; keys and            *)
(* ciphertexts are terms.  A Curve25519 public key is <<"pk", k, b>>: the  *)
(* point of private key k, and the top bit b of its last byte, which       *)
(* crypto_scalarmult masks off (generated keys have b = 0).                *)
(***************************************************************************)
Byte == {0, 1}
\* The byte strings of at most n bytes.
ByteStrings(n) == UNION {[1..k -> Byte] : k \in 0..n}

\* view.setUint32(0, n, false): n as four bytes, big-endian.
setUint32(n) ==
    <<(n \div 16777216) % 256, (n \div 65536) % 256, (n \div 256) % 256, n % 256>>
\* view.getUint32(0, false) of a byte string of at least four bytes.
getUint32(bytes) ==
    bytes[1] * 16777216 + bytes[2] * 65536 + bytes[3] * 256 + bytes[4]

\* A faulty serialize that writes the length of the certificate little-endian.
serialize_LittleEndian(senderCertificate, encryptedMessage) ==
    LET n == Len(senderCertificate)
    IN  <<n % 256, (n \div 256) % 256, (n \div 65536) % 256, (n \div 16777216) % 256>>
           \o senderCertificate \o encryptedMessage

\* new SealedEnvelope(senderCertificate, encryptedMessage).serialize()
serialize(senderCertificate, encryptedMessage) ==
    setUint32(Len(senderCertificate)) \o senderCertificate \o encryptedMessage

\* A faulty deserialize that takes the certificate to start at the fourth byte.
deserialize_OffByOne(bytes) ==
    IF Len(bytes) < 4
    THEN [err |-> "tooShort", senderCertificate |-> <<>>, encryptedMessage |-> <<>>]
    ELSE LET certLength == getUint32(bytes)
         IN  IF Len(bytes) < 4 + certLength
             THEN [err |-> "corrupted", senderCertificate |-> <<>>, encryptedMessage |-> <<>>]
             ELSE [err |-> "",
                   senderCertificate |-> SubSeq(bytes, 4, 3 + certLength),
                   encryptedMessage  |-> SubSeq(bytes, 4 + certLength, Len(bytes))]

\* SealedEnvelope.deserialize(bytes): err is "" and the two parts, or the error.
deserialize(bytes) ==
    IF Len(bytes) < 4
    THEN [err |-> "tooShort", senderCertificate |-> <<>>, encryptedMessage |-> <<>>]
    ELSE LET certLength == getUint32(bytes)
         IN  IF Len(bytes) < 4 + certLength
             THEN [err |-> "corrupted", senderCertificate |-> <<>>, encryptedMessage |-> <<>>]
             ELSE [err |-> "",
                   senderCertificate |-> SubSeq(bytes, 5, 4 + certLength),
                   encryptedMessage  |-> SubSeq(bytes, 5 + certLength, Len(bytes))]

\* sodium.generateKeyPairCurve25519(): the public key of private key k.
Curve25519PublicKey(k) == <<"pk", k, 0>>

\* sodium.deriveSharedSecret(myPrivateKey, theirPublicKey): crypto_scalarmult
\* reads the point of the public key and not its top bit.
deriveSharedSecret(myPrivateKey, theirPublicKey) ==
    <<"x25519", Min(myPrivateKey, theirPublicKey[2]), Max(myPrivateKey, theirPublicKey[2])>>

\* padContext(context): the first 8 bytes of the context.
padContext(context) == <<"first8", context>>

\* sodium.hkdfManual(ikm, salt, info, length) for length = 32.
hkdfManual(ikm, salt, info) == <<"hkdfManual", ikm, salt, info>>

\* sodium.hkdf(inputKeyMaterial, salt, info, 32): crypto_kdf_derive_from_key
\* where the library accepts the call (native), else hkdfManual.
sodium_hkdf(inputKeyMaterial, salt, info, native) ==
    IF native THEN <<"kdf", inputKeyMaterial, padContext(info)>>
    ELSE hkdfManual(inputKeyMaterial, salt, info)

SealedSenderInfo == <<"SealedSender-v2-envelope">>

\* sodium.encrypt(message, key) with the random nonce r: XChaCha20-Poly1305.
sodium_encrypt(message, key, r) ==
    [ciphertext |-> <<"xchacha20poly1305", key, r, message>>, nonce |-> r]

\* sodium.decrypt(ciphertext, nonce, key): err is "" and the plaintext, or
\* the authentication failed.
sodium_decrypt(ciphertext, nonce, key) ==
    IF ciphertext[1] = "xchacha20poly1305" /\ ciphertext[2] = key /\ ciphertext[3] = nonce
    THEN [err |-> "", plaintext |-> ciphertext[4]]
    ELSE [err |-> "mac", plaintext |-> <<>>]

\* SealedSenderV2.seal(senderCertificate, encryptedMessage, recipientPublicKey)
\* with the ephemeral private key k and the nonce r:
\* [ephemeral_pk(32) || nonce(24) || ciphertext], kept as its three parts.
seal(senderCertificate, encryptedMessage, recipientPublicKey, k, r, native) ==
    LET sharedSecret  == deriveSharedSecret(k, recipientPublicKey)
        encryptionKey == sodium_hkdf(sharedSecret, ZeroSalt, SealedSenderInfo, native)
        envelopeBytes == serialize(senderCertificate, encryptedMessage)
        c == sodium_encrypt(envelopeBytes, encryptionKey, r)
    IN  [ephemeralPublicKey |-> Curve25519PublicKey(k), nonce |-> c.nonce,
         ciphertext |-> c.ciphertext]

\* SealedSenderV2.unseal(sealedMessage, recipientPrivateKey)
unseal(sealedMessage, recipientPrivateKey, native) ==
    LET sharedSecret  == deriveSharedSecret(recipientPrivateKey, sealedMessage.ephemeralPublicKey)
        decryptionKey == sodium_hkdf(sharedSecret, ZeroSalt, SealedSenderInfo, native)
        d == sodium_decrypt(sealedMessage.ciphertext, sealedMessage.nonce, decryptionKey)
        envelope == deserialize(d.plaintext)
    IN  IF d.err # ""
        THEN [err |-> d.err, senderCertificate |-> <<>>, encryptedMessage |-> <<>>]
        ELSE envelope
(***************************************************************************)
(* Sealing and unsealing: a sender seals a certificate and a message to a  *)
(* recipient's public key; the sealed message, as sent or with one part    *)
(* changed on the way, is unsealed with a recipient's private key.         *)
(***************************************************************************)
Recipients == 1..MaxRecipients

NoSealed == [ephemeralPublicKey |-> Curve25519PublicKey(0), nonce |-> 0, ciphertext |-> <<"none">>]
NoUnseal ==
    [done |-> FALSE, given |-> NoSealed, key |-> 0, err |-> "",
     senderCertificate |-> <<>>, encryptedMessage |-> <<>>]

\* await sodium.initialize(); the library takes the crypto_kdf call of
\* sodium.hkdf or throws and leaves it to hkdfManual.
SodiumInitialize ==
    /\ ~ss.ready
    /\ \E native \in BOOLEAN :
          ss' = [ready |-> TRUE, native |-> native, seals |-> 0,
                 senderCertificate |-> <<>>, encryptedMessage |-> <<>>, recipient |-> 0,
                 sealed |-> NoSealed, unsealed |-> NoUnseal]
    /\ UNCHANGED <<sess, rp, now, sent, dlv, rand, nextKey, last, ticks, x3, admitted, cert, store, calls, env, sym, symCall>>

\* SealedSenderV2.seal(c, m, pub)
Seal ==
    /\ ss.ready
    /\ ss.seals < MaxSeals
    /\ \E c \in ByteStrings(MaxBytes) : \E m \in ByteStrings(MaxBytes) : \E to \in Recipients :
          ss' = [ss EXCEPT !.seals = @ + 1,
                           !.senderCertificate = c, !.encryptedMessage = m, !.recipient = to,
                           !.sealed = seal(c, m, Curve25519PublicKey(to),
                                           1000 + ss.seals, 1 + ss.seals, ss.native),
                           !.unsealed = NoUnseal]
    /\ UNCHANGED <<sess, rp, now, sent, dlv, rand, nextKey, last, ticks, x3, admitted, cert, store, calls, env, sym, symCall>>

\* A sealed message with a byte of one of its three parts changed: the top
\* bit of the ephemeral key, another byte of it, the nonce, the ciphertext.
Tampered(m) ==
    { [m EXCEPT !.ephemeralPublicKey[3] = 1 - @],
      [m EXCEPT !.ephemeralPublicKey[2] = 0 - @],
      [m EXCEPT !.nonce = 0 - @],
      [m EXCEPT !.ciphertext = <<"flip", @>>] }

\* SealedSenderV2.unseal(sealedMessage, priv)
Unseal ==
    /\ ss.ready
    /\ ss.seals > 0
    /\ \E given \in {ss.sealed} \cup Tampered(ss.sealed) : \E key \in Recipients :
          LET u == unseal(given, key, ss.native)
          IN  ss' = [ss EXCEPT !.unsealed =
                       [done |-> TRUE, given |-> given, key |-> key, err |-> u.err,
                        senderCertificate |-> u.senderCertificate,
                        encryptedMessage |-> u.encryptedMessage]]
    /\ UNCHANGED <<sess, rp, now, sent, dlv, rand, nextKey, last, ticks, x3, admitted, cert, store, calls, env, sym, symCall>>

NextSealed ==
    \/ SodiumInitialize
    \/ Seal
    \/ Unseal

SpecSealed == Init /\ [][NextSealed]_vars

\* The last call unsealed the sealed message as it was sent, with the
\* private key of the recipient it was sealed to.
UnsealedIntact ==
    /\ ss.ready
    /\ ss.unsealed.done
    /\ ss.unsealed.given = ss.sealed
    /\ ss.unsealed.key = ss.recipient

\* C13: unseal(seal(c, m, pub), priv) returns the certificate c and the
\* message m, for every c and m (empty ones included) and every key pair.
C13_SealedRoundTrip ==
    UnsealedIntact
        => /\ ss.unsealed.err = ""
           /\ ss.unsealed.senderCertificate = ss.senderCertificate
           /\ ss.unsealed.encryptedMessage = ss.encryptedMessage

\* A certificate with an empty message has come back from unseal.
C13_Witness ==
    /\ UnsealedIntact
    /\ ss.unsealed.err = ""
    /\ ss.senderCertificate # <<>> /\ ss.encryptedMessage = <<>>
    /\ ss.unsealed.senderCertificate = ss.senderCertificate
    /\ ss.seals = 2

\* C14: unseal returns a result only for the sealed message as it was sent,
\* opened with the private key it was sealed to.
C14_UnsealOnlyIntact ==
    (ss.ready /\ ss.unsealed.done /\ ss.unsealed.err = "") => UnsealedIntact
(***************************************************************************)
(* Sender certificates (SenderCertificate).  An ECDSA signature is the     *)
(* term <<"ecdsa", key, data>>; the signed bytes are the JSON text of      *)
(* {userId, senderKey, validUntil}, in this order.                         *)
(***************************************************************************)
DayMs == 86400000

\* JSON.stringify(certData) of {userId, senderKey, validUntil}.
CertBytes(userId, senderKey, validUntil) == <<"json", userId, senderKey, validUntil>>

\* crypto.subtle.sign / crypto.subtle.verify with ECDSA.
ecdsaSign(privateKey, data) == <<"ecdsa", privateKey, data>>
ecdsaVerify(publicKey, signature, data) == signature = <<"ecdsa", publicKey, data>>

\* new SenderCertificate(userId, senderKey, serverSigningKey).generate(validityDays)
\* at time t: validUntil is the expiry date as toISOString gives it.
SenderCertificate_generate(userId, senderKey, serverSigningKey, validityDays, t) ==
    LET validUntil == t + validityDays * DayMs
        senderKeyJwk == exportPublicKey(senderKey)
    IN  [userId |-> userId, senderKey |-> senderKeyJwk, validUntil |-> validUntil,
         signature |-> ecdsaSign(serverSigningKey,
                                 CertBytes(userId, senderKeyJwk, validUntil))]

\* A faulty verify that checks the signature and not the expiry.
SenderCertificate_verify_NoExpiry(certificate, serverPublicKey, t) ==
    IF ~ecdsaVerify(serverPublicKey, certificate.signature,
                    CertBytes(certificate.userId, certificate.senderKey,
                              certificate.validUntil))
    THEN "invalidSignature"
    ELSE "true"

\* SenderCertificate.verify(certificate, serverPublicKey) at time t: "true",
\* or the error it throws.
SenderCertificate_verify(certificate, serverPublicKey, t) ==
    IF certificate.validUntil < t
    THEN "expired"
    ELSE IF ~ecdsaVerify(serverPublicKey, certificate.signature,
                         CertBytes(certificate.userId, certificate.senderKey,
                                   certificate.validUntil))
    THEN "invalidSignature"
    ELSE "true"

\* The signing keys: the authority's and another one.
SigningKeys == {1, 2}

NoVerify == [done |-> FALSE, result |-> "", key |-> 0, at |-> 0,
             given |-> SenderCertificate_generate(0, 0, 0, 0, 0)]

\* A certificate is generated for a user, signed with one of the keys.
Issue ==
    /\ cert.issued < MaxIssued
    /\ \E userId \in 1..MaxUsers : \E key \in SigningKeys : \E validityDays \in {0, 7} :
          cert' = [issued |-> cert.issued + 1, signer |-> key,
                   certificate |-> SenderCertificate_generate(userId, 10 + userId, key,
                                                              validityDays, now),
                   verified |-> NoVerify]
    /\ UNCHANGED <<sess, rp, now, sent, dlv, rand, nextKey, last, ticks, x3, admitted, ss, store, calls, env, sym, symCall>>

\* A certificate with one of its fields changed after it was issued.
Altered(c) ==
    { [c EXCEPT !.userId = @ + 100],
      [c EXCEPT !.senderKey = exportPublicKey(0 - importPublicKey(@))],
      [c EXCEPT !.validUntil = @ + DayMs],
      [c EXCEPT !.signature = <<"flip", @>>] }

\* SenderCertificate.verify(certificate, serverPublicKey)
Verify ==
    /\ cert.issued > 0
    /\ \E given \in {cert.certificate} \cup Altered(cert.certificate) : \E key \in SigningKeys :
          cert' = [cert EXCEPT !.verified =
                      [done |-> TRUE, given |-> given, key |-> key, at |-> now,
                       result |-> SenderCertificate_verify(given, key, now)]]
    /\ UNCHANGED <<sess, rp, now, sent, dlv, rand, nextKey, last, ticks, x3, admitted, ss, store, calls, env, sym, symCall>>

\* Time passes: a millisecond, or a week.
CertTick ==
    /\ ticks < MaxTicks
    /\ \E d \in {1, 7 * DayMs} : now' = now + d
    /\ ticks' = ticks + 1
    /\ UNCHANGED <<sess, rp, sent, dlv, rand, nextKey, last, x3, admitted, ss, cert, store, calls, env, sym, symCall>>

NextCert ==
    \/ Issue
    \/ Verify
    \/ CertTick

SpecCert == Init /\ [][NextCert]_vars

\* C15: verify returns true exactly for a certificate as it was issued,
\* checked under the key it was signed with, no later than its validUntil;
\* in every other case (expired, another key, a field changed) it throws.
C15_CertificateVerify ==
    (cert.issued > 0 /\ cert.verified.done)
       => /\ cert.verified.result \in {"true", "expired", "invalidSignature"}
          /\ cert.verified.result = "true"
               <=> /\ cert.verified.given = cert.certificate
                   /\ cert.verified.key = cert.signer
                   /\ cert.verified.at <= cert.certificate.validUntil

\* A certificate as issued, under the right key, has been refused one
\* millisecond after its validUntil.
C15_Witness ==
    /\ cert.issued > 0 /\ cert.verified.done
    /\ cert.verified.given = cert.certificate
    /\ cert.verified.key = cert.signer
    /\ cert.verified.at = cert.certificate.validUntil + 1
    /\ cert.verified.result = "expired"
\* C16: messagesSent is the number of encrypt calls that returned an
\* envelope; messagesReceived starts at 0, grows by one in every decrypt call
\* that returns a plaintext, and changes in no other step; a failed encrypt
\* or decrypt changes neither counter.
C16_MessageCounters ==
    /\ [](\A p \in Party : sess[p].messagesSent = Len(sent[p]))
    /\ [][\A p \in Party :
            /\ sess'[p].messagesReceived =
                  sess[p].messagesReceived
                    + (IF DecryptStep(p) /\ last'.outcome = "ok" THEN 1 ELSE 0)
            /\ sess'[p].messagesSent =
                  sess[p].messagesSent
                    + (IF EncryptStep(p) /\ last'.outcome = "ok" THEN 1 ELSE 0)
            /\ (last'.outcome # "ok" /\ (DecryptStep(p) \/ EncryptStep(p)))
                  => /\ sess'[p].messagesSent = sess[p].messagesSent
                     /\ sess'[p].messagesReceived = sess[p].messagesReceived]_vars

\* A has sent one message, B has decrypted it and replied once, A has
\* decrypted the reply (and a repeated delivery has failed since): both
\* sessions report one message sent and one received.
C16_Witness ==
    /\ Len(sent["A"]) = 1 /\ Len(sent["B"]) = 1
    /\ \A p \in Party : sess[p].messagesSent = 1 /\ sess[p].messagesReceived = 1
    /\ Len(dlv["A"]) + Len(dlv["B"]) = 3
    /\ last.op = "decrypt" /\ last.outcome # "ok"
(***************************************************************************)
(* A network that also hands decrypt envelopes whose message number is     *)
(* ahead of the receiving chain: by 1, 2, maxSkip or maxSkip + 1.          *)
(***************************************************************************)
\* Envelope g with the message number put `jump` ahead of p's receiving
\* chain, and a nonce p's guard has not seen.
Ahead(p, g, jump) ==
    [g EXCEPT !.messageNumber = sess[p].receivingChain.messageNumber + jump,
              !.nonce = 0 - (Len(dlv[p]) + 1)]

DeliverAhead(p) ==
    /\ NumDelivered < MaxDeliverSkip
    /\ \E g \in Envelopes(Peer(p)) : \E jump \in {1, 2, maxSkip, maxSkip + 1} :
          DecryptCall(p, Ahead(p, g, jump))

NextSkip ==
    \/ \E p \in Party : Encrypt(p, MaxMsgsSkip)
    \/ \E p \in Party : Deliver(p, MaxDeliverSkip)
    \/ \E p \in Party : DeliverAhead(p)

SpecSkip == Init /\ [][NextSkip]_vars

\* The chain ratchet steps this decrypt step of p made: each ratchetForward
\* adds one to the counter of the receiving chain, and a DH ratchet step
\* starts a receiving chain at zero.
RatchetSteps(p) ==
    IF DHRatchetStep(p) THEN sess'[p].receivingChain.messageNumber
    ELSE sess'[p].receivingChain.messageNumber - sess[p].receivingChain.messageNumber

\* The counter of the receiving chain getMessageKey is called on in this
\* decrypt step of p.
CounterAtCall(p) ==
    IF DHRatchetStep(p) THEN 0 ELSE sess[p].receivingChain.messageNumber

\* C17: a decrypt call makes at most maxSkip + 1 chain ratchet steps, and a
\* message number more than maxSkip ahead of the receiving chain's counter
\* is refused before any ratchet step: no key is returned, the receiving
\* chain keeps its counter and key, and the cache of skipped keys is as it
\* was.
C17_BoundedSkip ==
    [][\A p \in Party :
          DecryptStep(p) =>
             /\ RatchetSteps(p) <= maxSkip + 1
             /\ (last'.envelope.messageNumber > CounterAtCall(p) + maxSkip)
                  => /\ last'.outcome \notin {"ok", "hmac", "aead"}
                     /\ RatchetSteps(p) = 0
                     /\ sess'[p].skippedMessageKeys = sess[p].skippedMessageKeys
                     /\ ~DHRatchetStep(p)
                          => sess'[p].receivingChain = sess[p].receivingChain]_vars

\* A request maxSkip + 1 ahead was refused just after one maxSkip ahead was
\* served with maxSkip + 1 ratchet steps.
C17_Witness ==
    /\ last.op = "decrypt" /\ last.outcome = "tooManySkipped"
    /\ sess[last.party].receivingChain.messageNumber = maxSkip + 1
    /\ last.envelope.messageNumber = 2 * maxSkip + 2
    /\ Cardinality(DOMAIN sess[last.party].skippedMessageKeys) = maxSkip

\* C18: the cache of skipped message keys never holds more than maxSkip
\* entries.
C18_CacheBounded ==
    \A p \in Party : Cardinality(DOMAIN sess[p].skippedMessageKeys) <= maxSkip

(***************************************************************************)
(* Persistence: DHRatchet.export, DHRatchet.import, DHRatchet.restore and  *)
(* the session store.  The exported state is plain data: a key is an array *)
(* of byte values, a CryptoKey a JWK, a Set an array, a Map an array of     *)
(* pairs, an absent object null.                                           *)
(***************************************************************************)
\* Array.from(new Uint8Array(buffer))
ArrayFromBuffer(buffer) == <<"array", buffer>>

\* The buffer with no bytes.
EmptyBuffer == <<"empty">>

\* new Uint8Array(array).buffer: no bytes when the array is not there.
BufferFromArray(array) == IF array[1] = "array" THEN array[2] ELSE EmptyBuffer

\* crypto.subtle.exportKey('jwk', privateKey)
exportPrivateKey(privateKey) == <<"jwk", "EC", "P-256", privateKey, "d">>

\* crypto.subtle.importKey('jwk', ...) takes a JWK of an EC key on P-256 and
\* throws on anything else.
IsJWK(jwk) == Len(jwk) >= 4 /\ jwk[1] = "jwk"

\* MessageChain.export()
MessageChain_export(chain) ==
    [present |-> TRUE, chainKey |-> ArrayFromBuffer(chain.chainKey),
     messageNumber |-> chain.messageNumber]

NullChain == [present |-> FALSE, chainKey |-> Undefined, messageNumber |-> 0]
NullKeyPair == [present |-> FALSE, publicKey |-> Undefined, privateKey |-> Undefined]

\* MessageChain.import(data)
MessageChain_import(data) ==
    [on |-> TRUE, chainKey |-> BufferFromArray(data.chainKey),
     messageNumber |-> data.messageNumber]

\* DHRatchet.export(): the state of session s as plain data.
export(s) ==
    [ rootKey |-> ArrayFromBuffer(s.rootKey),
      isInitiator |-> s.isInitiator,
      dhKeyPair |-> IF s.dhKeyPair # 0
                    THEN [present |-> TRUE,
                          publicKey |-> exportPublicKey(s.dhKeyPair),
                          privateKey |-> exportPrivateKey(s.dhKeyPair)]
                    ELSE NullKeyPair,
      dhRemotePublicKey |-> IF s.dhRemotePublicKey # 0
                            THEN exportPublicKey(s.dhRemotePublicKey) ELSE Undefined,
      sendingChain |-> IF s.sendingChain.on
                       THEN MessageChain_export(s.sendingChain) ELSE NullChain,
      receivingChain |-> IF s.receivingChain.on
                         THEN MessageChain_export(s.receivingChain) ELSE NullChain,
      messagesSent |-> s.messagesSent,
      messagesReceived |-> s.messagesReceived,
      receivedMessageNumbers |-> <<"array", s.receivedMessageNumbers>>,
      skippedMessageKeys |-> [k \in DOMAIN s.skippedMessageKeys |->
                                 ArrayFromBuffer(s.skippedMessageKeys[k])],
      sendSequenceNumber |-> s.sendSequenceNumber,
      lastReceivedSequence |-> s.lastReceivedSequence ]

\* DHRatchet.import(data): a new DHRatchet(rootKey, isInitiator), with the
\* options of the constructor at their defaults, filled from the data.  The
\* imports of the JWKs are the only steps that can throw; err is "" when a
\* session is returned.
import(data) ==
    IF data.dhKeyPair.present
       /\ ~(IsJWK(data.dhKeyPair.publicKey) /\ IsJWK(data.dhKeyPair.privateKey))
    THEN [err |-> "DataError", sess |-> NewDHRatchet(EmptyBuffer, FALSE)]
    ELSE IF data.dhRemotePublicKey[1] # "undefined" /\ ~IsJWK(data.dhRemotePublicKey)
    THEN [err |-> "DataError", sess |-> NewDHRatchet(EmptyBuffer, FALSE)]
    ELSE [err |-> "",
          sess |-> [NewDHRatchet(BufferFromArray(data.rootKey), data.isInitiator) EXCEPT
                      !.dhKeyPair = IF data.dhKeyPair.present
                                    THEN importPublicKey(data.dhKeyPair.privateKey) ELSE @,
                      !.dhRemotePublicKey = IF data.dhRemotePublicKey[1] # "undefined"
                                            THEN importPublicKey(data.dhRemotePublicKey) ELSE @,
                      !.sendingChain = IF data.sendingChain.present
                                       THEN MessageChain_import(data.sendingChain) ELSE @,
                      !.receivingChain = IF data.receivingChain.present
                                         THEN MessageChain_import(data.receivingChain) ELSE @,
                      !.messagesSent = data.messagesSent,
                      !.messagesReceived = data.messagesReceived,
                      !.receivedMessageNumbers = data.receivedMessageNumbers[2],
                      !.skippedMessageKeys = [k \in DOMAIN data.skippedMessageKeys |->
                                                BufferFromArray(data.skippedMessageKeys[k])],
                      !.sendSequenceNumber = data.sendSequenceNumber,
                      !.lastReceivedSequence = data.lastReceivedSequence]]

\* DHRatchet.restore(sessionId, storage): there is no session when the store
\* has no record or import throws; the restored session has the guard that
\* the constructor made.
restore(record) ==
    IF ~record.found
    THEN [err |-> "notFound", sess |-> NewDHRatchet(EmptyBuffer, FALSE)]
    ELSE import(record.state)

\* A stored state with the root key, a chain key or the DH key pair missing
\* or damaged.
Corruptions(d) ==
    { [d EXCEPT !.rootKey = Undefined],
      [d EXCEPT !.rootKey = ArrayFromBuffer(<<"flip", @[2]>>)],
      [d EXCEPT !.dhKeyPair = NullKeyPair],
      [d EXCEPT !.dhKeyPair.privateKey = <<"flip", @>>] }
    \cup (IF d.sendingChain.present
          THEN { [d EXCEPT !.sendingChain.chainKey = Undefined],
                 [d EXCEPT !.sendingChain.chainKey = ArrayFromBuffer(<<"flip", @[2]>>)] }
          ELSE {})
    \cup (IF d.receivingChain.present
          THEN { [d EXCEPT !.receivingChain.chainKey = Undefined],
                 [d EXCEPT !.receivingChain.chainKey = ArrayFromBuffer(<<"flip", @[2]>>)] }
          ELSE {})

\* The array is not that of a key the session had.
DamagedKey(array) == array[1] # "array" \/ array[2][1] \in {"flip", "empty"}

Corrupted(d) ==
    \/ DamagedKey(d.rootKey)
    \/ d.sendingChain.present /\ DamagedKey(d.sendingChain.chainKey)
    \/ d.receivingChain.present /\ DamagedKey(d.receivingChain.chainKey)
    \/ ~d.dhKeyPair.present
    \/ ~IsJWK(d.dhKeyPair.publicKey)
    \/ ~IsJWK(d.dhKeyPair.privateKey)

\* save(): storage.saveRatchetState(sessionId, this) puts the exported state
\* in the store.
Save(p) ==
    /\ store' = [store EXCEPT ![p] = [found |-> TRUE, state |-> export(sess[p]),
                                      loads |-> @.loads]]
    /\ last' = Call("save", p, "ok", "", NoEnvelope)
    /\ UNCHANGED <<sess, rp, now, sent, dlv, rand, nextKey, ticks, x3, admitted, ss, cert, calls, env, sym, symCall>>

\* What loadRatchetState may find for p's session: the record as it was
\* saved, or one whose state has been corrupted since.
Records(p) ==
    IF ~store[p].found THEN {store[p]}
    ELSE IF Corrupted(store[p].state) THEN {store[p]}
    ELSE {[store[p] EXCEPT !.state = d] :
             d \in {store[p].state} \cup Corruptions(store[p].state)}

\* p starts again from the store: DHRatchet.restore(sessionId, storage).
Restore(p) ==
    /\ store[p].loads < MaxLoads
    /\ \E record \in Records(p) :
          LET r == restore(record)
          IN  /\ store' = [store EXCEPT ![p] = [record EXCEPT !.loads = @ + 1]]
              /\ sess' = IF r.err = "" THEN [sess EXCEPT ![p] = r.sess] ELSE sess
              /\ rp' = IF r.err = "" THEN [rp EXCEPT ![p] = NewReplayProtection] ELSE rp
              /\ last' = Call("restore", p, IF r.err = "" THEN "ok" ELSE r.err, "",
                              NoEnvelope)
    /\ UNCHANGED <<now, sent, dlv, rand, nextKey, ticks, x3, admitted, ss, cert, calls, env, sym, symCall>>

NextStore ==
    \/ \E p \in Party : Encrypt(p, MaxMsgsStore)
    \/ \E p \in Party : Deliver(p, MaxDeliverStore)
    \/ \E p \in Party : DeliverForged(p)
    \/ \E p \in Party : Save(p)
    \/ \E p \in Party : Restore(p)

SpecStore == Init /\ [][NextStore]_vars

\* The session import makes of the exported state of p's session.
Imported(p) == import(export(sess[p])).sess

\* import(export(S)) has every field of S.
FieldsRoundTrip(p) ==
    /\ import(export(sess[p])).err = ""
    /\ Imported(p) = sess[p]

\* The imported session, with the guard import gives it, decrypts envelope e
\* as p's session would: the same plaintext or a failure, and the same
\* session afterwards.
DecryptsAlike(p, e) ==
    LET S == decrypt(sess[p], rp[p], e, now, nextKey)
        I == decrypt(Imported(p), NewReplayProtection, e, now, nextKey)
    IN  /\ (S.outcome = "ok") = (I.outcome = "ok")
        /\ S.plaintext = I.plaintext
        /\ S.sess = I.sess

\* The imported session encrypts as p's session would.
EncryptsAlike(p) ==
    \A plaintext \in Plaintext(NumSent) :
        encrypt(Imported(p), plaintext, now, rand) = encrypt(sess[p], plaintext, now, rand)

\* C19: import(export(S)) has the fields of S, it encrypts and decrypts the
\* next messages as S would, and export leaves S as it was.
C19_ExportImportLossless ==
    /\ [](\A p \in Party :
             /\ FieldsRoundTrip(p)
             /\ EncryptsAlike(p)
             /\ \A e \in Envelopes(Peer(p)) : DecryptsAlike(p, e))
    /\ [][\A p \in Party :
             (last'.op = "save" /\ last'.party = p) => sess'[p] = sess[p]]_vars

\* This step is a restore of p's session (store'[p] is the record it loaded).
RestoreStep(p) == last'.op = "restore" /\ last'.party = p /\ store'[p] # store[p]

\* C20: restore of a stored state whose root key, chain key or DH key pair
\* is missing or damaged fails and yields no session, as restore does when
\* the store has no record of the session.
C20_NoResumeFromCorrupted ==
    [][\A p \in Party :
          (RestoreStep(p) /\ (~store'[p].found \/ Corrupted(store'[p].state)))
             => /\ last'.outcome # "ok"
                /\ sess' = sess
                /\ rp' = rp]_vars

(***************************************************************************)
(* The order of the checks in decrypt.                                     *)
(***************************************************************************)
\* What validateMessage makes of the envelope this decrypt step of p was given.
Validation(p) ==
    validateMessage(rp[p], last'.envelope.nonce, last'.envelope.timestamp, now)

\* C21: every decrypt call of a session with replay protection enabled runs
\* validateMessage on the envelope first: the guard is left as validateMessage
\* leaves it, and when validateMessage throws, decrypt ends with that error
\* and the session as it was.
C21_GuardGatesEveryDecrypt ==
    [][\A p \in Party :
          (DecryptStep(p) /\ sess[p].enableReplayProtection)
             => /\ rp'[p] = Validation(p).guard
                /\ Validation(p).outcome # "ok"
                     => /\ last'.outcome = Validation(p).outcome
                        /\ sess'[p] = sess[p]]_vars

(***************************************************************************)
(* The keys a session holds.                                               *)
(***************************************************************************)
\* Every key stored in session s.
StoredKeys(s) ==
    {s.rootKey, s.sendingChain.chainKey, s.receivingChain.chainKey}
        \cup {s.skippedMessageKeys[k] : k \in DOMAIN s.skippedMessageKeys}

\* The message key envelope e was encrypted under (its MAC is an HMAC under
\* the second HKDF block of that key).
KeyOf(e) == e.mac[2][2]

\* p's session at the getMessageKey call of this decrypt step: after the DH
\* ratchet step, if the envelope asks for one.
AtKeyLookup(p) ==
    LET receivedDHKey == importPublicKey(last'.envelope.dhPublicKey)
    IN  IF needsDHRatchet(sess[p], receivedDHKey) \/ ~sess[p].receivingChain.on
        THEN receiveDHRatchet(sess[p], receivedDHKey, nextKey)
        ELSE sess[p]

\* This decrypt step of p got a message key from getMessageKey.
KeyReturned(p) == DecryptStep(p) /\ last'.outcome \in {"ok", "hmac", "aead"}

\* C22: a session stores no message key it has returned and no chain key it
\* has moved on from.  No message key an encrypt of p used is stored in p's
\* session; after an encrypt the sending chain key it started from is
\* stored nowhere; after a decrypt that got a message key, that key and the
\* receiving chain key it was derived from are stored nowhere, and the cache
\* has gained only keys of numbers ahead of the chain that the call skipped.
C22_ForwardSecrecy ==
    /\ [](\A p \in Party : \A e \in Envelopes(p) : KeyOf(e) \notin StoredKeys(sess[p]))
    /\ [][\A p \in Party :
             /\ (EncryptStep(p) /\ last'.outcome = "ok")
                   => sess[p].sendingChain.chainKey \notin StoredKeys(sess'[p])
             /\ KeyReturned(p)
                   => LET s1 == AtKeyLookup(p)
                          n == last'.envelope.messageNumber
                          mk == getMessageKey(s1, n).messageKey
                      IN  /\ mk \notin StoredKeys(sess'[p])
                          /\ n >= s1.receivingChain.messageNumber
                               => s1.receivingChain.chainKey \notin StoredKeys(sess'[p])
                          /\ DOMAIN sess'[p].skippedMessageKeys \ DOMAIN sess[p].skippedMessageKeys
                               \subseteq s1.receivingChain.messageNumber .. (n - 1)
                          /\ n \in DOMAIN sess'[p].skippedMessageKeys
                               => /\ n \in DOMAIN sess[p].skippedMessageKeys
                                  /\ n >= s1.receivingChain.messageNumber]_vars

\* A key was skipped and cached, then returned from the cache and dropped.
C22_Witness ==
    \E p \in Party :
        /\ Decrypted(p) /\ last.outcome = "ok"
        /\ last.envelope.messageNumber < sess[p].receivingChain.messageNumber - 1
        /\ sess[p].skippedMessageKeys = <<>>
        /\ Cardinality(sess[p].receivedMessageNumbers) >= 2

(***************************************************************************)
(* What a decrypt call leaves behind.                                      *)
(***************************************************************************)
\* The keys and chains of p's session are as they were before this step.
RatchetUnchanged(p) ==
    /\ sess'[p].rootKey = sess[p].rootKey
    /\ sess'[p].dhKeyPair = sess[p].dhKeyPair
    /\ sess'[p].dhRemotePublicKey = sess[p].dhRemotePublicKey
    /\ sess'[p].sendingChain = sess[p].sendingChain
    /\ sess'[p].receivingChain = sess[p].receivingChain
    /\ sess'[p].skippedMessageKeys = sess[p].skippedMessageKeys

\* C23: a decrypt that fails at the HMAC check or in the AEAD decryption
\* leaves the root key, the DH keys, both chains, the cache of skipped keys
\* and the nonces of the replay guard as they were.
C23_FailedAuthHarmless ==
    [][\A p \in Party :
          (DecryptStep(p) /\ last'.outcome \in {"hmac", "aead"})
             => /\ RatchetUnchanged(p)
                /\ rp'[p].receivedNonces = rp[p].receivedNonces]_vars

(***************************************************************************)
(* A longer conversation over a network that delays and reorders, with the *)
(* clock standing still.                                                   *)
(***************************************************************************)
NextLate ==
    \/ \E p \in Party : Encrypt(p, MaxMsgsLate)
    \/ \E p \in Party : Deliver(p, MaxDeliverLate)

SpecLate == Init /\ [][NextLate]_vars

\* e is an envelope the peer of p sent on an earlier sending chain than the
\* one p's session has ratcheted to: it carries another DH public key than
\* the one p has stored, and the peer has sent under the stored key since.
LateEnvelope(p, e) ==
    /\ sess[p].dhRemotePublicKey # 0
    /\ e.dhPublicKey # exportPublicKey(sess[p].dhRemotePublicKey)
    /\ \E i, j \in 1..Len(sent[Peer(p)]) :
          /\ i < j
          /\ sent[Peer(p)][i].envelope = e
          /\ sent[Peer(p)][j].envelope.dhPublicKey = exportPublicKey(sess[p].dhRemotePublicKey)

\* C24: a late envelope of an earlier sending chain triggers no DH ratchet
\* step and leaves the root key, the DH keys and both chains as they were.
C24_LateEnvelopeHarmless ==
    [][\A p \in Party :
          (DecryptStep(p) /\ LateEnvelope(p, last'.envelope))
             => /\ ~DHRatchetStep(p)
                /\ sess'[p].rootKey = sess[p].rootKey
                /\ sess'[p].dhKeyPair = sess[p].dhKeyPair
                /\ sess'[p].dhRemotePublicKey = sess[p].dhRemotePublicKey
                /\ sess'[p].sendingChain = sess[p].sendingChain
                /\ sess'[p].receivingChain = sess[p].receivingChain]_vars

\* The envelope of this decrypt step of p asks for a DH ratchet step: its
\* key is not the stored remote key, or p has no receiving chain.
AsksForDHRatchet(p) ==
    \/ sess[p].dhRemotePublicKey = 0
    \/ last'.envelope.dhPublicKey # exportPublicKey(sess[p].dhRemotePublicKey)
    \/ ~sess[p].receivingChain.on

\* This decrypt step of p got past replay protection and the check of the
\* processed message numbers.
PassedTheGates(p) ==
    DecryptStep(p) /\ last'.outcome \notin {"replay", "tooOld", "future", "duplicate"}

\* What a receive-side DH ratchet step makes of p's session, the receiving
\* chain aside: the root key is replaced twice (ECDH of the old key pair,
\* then of the fresh one, with the envelope's key), the envelope's key is
\* stored, the key pair is fresh, the sending chain is new.
DHRatchetEffects(p) ==
    LET remote == importPublicKey(last'.envelope.dhPublicKey)
        rootKey1 == hkdf(performECDH(sess[p].dhKeyPair, remote), sess[p].rootKey, ChainInfo, 1)
        chainKey1 == hkdf(performECDH(sess[p].dhKeyPair, remote), sess[p].rootKey, ChainInfo, 2)
        fresh == sess'[p].dhKeyPair
    IN  /\ fresh = nextKey /\ nextKey' = nextKey + 1
        /\ fresh \notin {sess[q].dhKeyPair : q \in Party}
        /\ sess'[p].dhRemotePublicKey = remote
        /\ sess'[p].rootKey = hkdf(performECDH(fresh, remote), rootKey1, ChainInfo, 1)
        /\ sess'[p].rootKey # sess[p].rootKey
        /\ sess'[p].sendingChain =
              MessageChain(hkdf(performECDH(fresh, remote), rootKey1, ChainInfo, 2))
        /\ ChainSeed(sess'[p].receivingChain.chainKey) = chainKey1
        /\ sess'[p].receivingChain.messageNumber \in {0, last'.envelope.messageNumber + 1}

MacValid(p) ==
    LET e == last'.envelope
        mk == getMessageKey(AtKeyLookup(p), e.messageNumber).messageKey
        authKey == hkdf(mk, ZeroSalt, MessageInfo(e.messageNumber), 2)
        associatedData ==
            AssociatedData(e.messageNumber, e.dhPublicKey, e.timestamp,
                           e.sequenceNumber, e.nonce)
    IN  verifyHMAC(authKey, <<associatedData, e.iv, e.ciphertext>>, e.mac)

\* The three fields decrypt updates on success are as they were.
ReceiptUnchanged(p) ==
    /\ sess'[p].receivedMessageNumbers = sess[p].receivedMessageNumbers
    /\ sess'[p].messagesReceived = sess[p].messagesReceived
    /\ sess'[p].lastReceivedSequence = sess[p].lastReceivedSequence

\* C26: decrypt gets to the AEAD decryption only with a verified HMAC, and
\* marks the message number as processed, counts the message and updates
\* lastReceivedSequence only when both checks succeeded; a failed call
\* returns no plaintext and leaves the three fields as they were.
C26_AuthenticationOrder ==
    [][\A p \in Party :
          DecryptStep(p) =>
             /\ last'.outcome \in {"aead", "ok"} => MacValid(p)
             /\ last'.outcome = "ok"
                  => /\ sess'[p].receivedMessageNumbers =
                           sess[p].receivedMessageNumbers \cup {last'.envelope.messageNumber}
                     /\ sess'[p].messagesReceived = sess[p].messagesReceived + 1
                     /\ sess'[p].lastReceivedSequence = last'.envelope.sequenceNumber
             /\ last'.outcome # "ok"
                  => /\ last'.plaintext = ""
                     /\ ReceiptUnchanged(p)]_vars

\* A session that has decrypted one message has failed to authenticate a
\* modified envelope of another number: it still counts one message.
C26_Witness ==
    \E p \in Party :
        /\ Decrypted(p) /\ last.outcome = "hmac" /\ ~Genuine(p, last.envelope)
        /\ sess[p].messagesReceived = 1
        /\ last.envelope.messageNumber \notin sess[p].receivedMessageNumbers

\* C27: a decrypt refused by replay protection (nonce seen, too old, too far
\* in the future) or by the check of the processed message numbers leaves
\* the root key, the DH keys, both chains, the cache of skipped keys, the
\* processed set, messagesReceived and lastReceivedSequence as they were.
C27_RefusedChangesNothing ==
    [][\A p \in Party :
          (DecryptStep(p) /\ last'.outcome \in {"replay", "tooOld", "future", "duplicate"})
             => /\ RatchetUnchanged(p)
                /\ ReceiptUnchanged(p)
                /\ last'.plaintext = ""]_vars

\* An envelope with a number the session has processed, and a nonce it has
\* not seen, was refused as already processed.
C27_Witness ==
    \E p \in Party :
        /\ Decrypted(p) /\ last.outcome = "duplicate"
        /\ sess[p].messagesReceived = 1
        /\ sess[p].receivingChain.messageNumber = 1
        /\ rp[p].stats.messagesAccepted = 2

(***************************************************************************)
(* Encrypt calls in flight together on one session.  An async function     *)
(* runs without interruption from one await to the next; at an await       *)
(* another call on the same session may run.  encrypt is split where the   *)
(* fields of the session are read and written:                             *)
(*   EncryptBegin    the check of sendingChain, and ratchetForward up to   *)
(*                   its first await: importKey is handed this.chainKey;   *)
(*   EncryptRatchet  ratchetForward after its last await: messageNumber    *)
(*                   is read, chainKey and messageNumber are written;      *)
(*   EncryptSeal     after the awaits of hkdf, importKey, exportPublicKey: *)
(*                   dhKeyPair is read, nonce and timestamp are drawn,     *)
(*                   sendSequenceNumber is read and incremented;           *)
(*   EncryptReturn   after the awaits of encryptAESGCM, importKey and      *)
(*                   computeHMAC: messagesSent++, the envelope is returned.*)
(***************************************************************************)
\* Some encrypt call of p stands at an await.
InFlight(p) ==
    \E c \in CallId : calls[c].party = p /\ calls[c].pc \in {"ratchet", "seal", "return"}

\* The envelope encrypt returns, from the locals of call k.
envelopeOf(k) ==
    LET encryptionKey == hkdf(k.messageKey, ZeroSalt, MessageInfo(k.messageNumber), 1)
        authKey == hkdf(k.messageKey, ZeroSalt, MessageInfo(k.messageNumber), 2)
        iv == k.nonce
        associatedData ==
            AssociatedData(k.messageNumber, k.dhPublicKey, k.timestamp,
                           k.sequenceNumber, k.nonce)
        ciphertext == encryptAESGCM(encryptionKey, k.plaintext, iv, associatedData)
        mac == computeHMAC(authKey, <<associatedData, iv, ciphertext>>)
    IN  [ciphertext |-> ciphertext, iv |-> iv, mac |-> mac,
         messageNumber |-> k.messageNumber, dhPublicKey |-> k.dhPublicKey,
         nonce |-> k.nonce, timestamp |-> k.timestamp,
         sequenceNumber |-> k.sequenceNumber]

\* p.encrypt(plaintext) is called: it throws for want of a sending chain, or
\* enters ratchetForward, which hands the chain key to importKey and awaits.
EncryptBegin(c, p) ==
    /\ calls[c].pc = "idle"
    /\ \E plaintext \in Plaintext(c) :
          IF ~sess[p].sendingChain.on
          THEN /\ calls' = [calls EXCEPT ![c] = [NoCall EXCEPT !.pc = "thrown", !.party = p,
                                                               !.plaintext = plaintext]]
               /\ last' = Call("encrypt", p, "noSendingChain", plaintext, NoEnvelope)
          ELSE /\ calls' = [calls EXCEPT ![c] =
                              [NoCall EXCEPT !.pc = "ratchet", !.party = p,
                                             !.plaintext = plaintext,
                                             !.chainKey = sess[p].sendingChain.chainKey]]
               /\ last' = last
    /\ UNCHANGED <<sess, rp, now, sent, dlv, rand, nextKey, ticks, x3, admitted, ss, cert, store, env, sym, symCall>>

\* ratchetForward of call c resumes after its last await: both keys are
\* derived from the chain key it read, the message number is the counter now.
EncryptRatchet(c) ==
    /\ calls[c].pc = "ratchet"
    /\ LET p == calls[c].party
           f == ratchetForward([sess[p].sendingChain EXCEPT !.chainKey = calls[c].chainKey])
       IN  /\ sess' = [sess EXCEPT ![p].sendingChain = f.chain]
           /\ calls' = [calls EXCEPT ![c].pc = "seal",
                                     ![c].messageKey = f.messageKey,
                                     ![c].messageNumber = f.messageNumber]
    /\ UNCHANGED <<rp, now, sent, dlv, rand, nextKey, last, ticks, x3, admitted, ss, cert, store, env, sym, symCall>>

\* Call c resumes after exportPublicKey: nonce, timestamp, sequence number.
EncryptSeal(c) ==
    /\ calls[c].pc = "seal"
    /\ LET p == calls[c].party
       IN  /\ sess' = [sess EXCEPT ![p].sendSequenceNumber = @ + 1]
           /\ calls' = [calls EXCEPT ![c].pc = "return",
                                     ![c].dhPublicKey = exportPublicKey(sess[p].dhKeyPair),
                                     ![c].nonce = rand,
                                     ![c].timestamp = now,
                                     ![c].sequenceNumber = sess[p].sendSequenceNumber]
    /\ rand' = rand + 1
    /\ UNCHANGED <<rp, now, sent, dlv, nextKey, last, ticks, x3, admitted, ss, cert, store, env, sym, symCall>>

\* Call c resumes after computeHMAC: it counts the message and returns.
EncryptReturn(c) ==
    /\ calls[c].pc = "return"
    /\ LET p == calls[c].party
           e == envelopeOf(calls[c])
       IN  /\ sess' = [sess EXCEPT ![p].messagesSent = @ + 1]
           /\ sent' = [sent EXCEPT ![p] =
                         Append(@, [envelope |-> e, plaintext |-> calls[c].plaintext])]
           /\ last' = Call("encrypt", p, "ok", calls[c].plaintext, e)
           /\ calls' = [calls EXCEPT ![c].pc = "returned"]
    /\ UNCHANGED <<rp, now, dlv, rand, nextKey, ticks, x3, admitted, ss, cert, store, env, sym, symCall>>

\* p's decrypt runs while no encrypt of p is in flight.
DeliverBetween(p) == ~InFlight(p) /\ Deliver(p, MaxDeliverRace)

NextRace ==
    \/ \E c \in CallId, p \in Party : EncryptBegin(c, p)
    \/ \E c \in CallId : EncryptRatchet(c) \/ EncryptSeal(c) \/ EncryptReturn(c)
    \/ \E p \in Party : DeliverBetween(p)
SpecRace == Init /\ [][NextRace]_vars

\* The message key that a chain defines for message number n: the chain is
\* the one key k was derived in, n steps from its seed.
KeyAt(k, n) == ratchetForward(ChainAfter(MessageChain(ChainSeed(k[2])), n)).messageKey

\* C28: encrypt calls on one session that interleave at their awaits return
\* envelopes with distinct message numbers, each encrypted under the message
\* key its chain defines for its number, and a peer that is given them in
\* sending order decrypts every one.
C28_ConcurrentEncrypt ==
    /\ \A p \in Party : \A i, j \in 1..Len(sent[p]) :
          (i # j /\ sent[p][i].envelope.dhPublicKey = sent[p][j].envelope.dhPublicKey)
             => sent[p][i].envelope.messageNumber # sent[p][j].envelope.messageNumber
    /\ \A p \in Party : \A e \in Envelopes(p) : KeyOf(e) = KeyAt(KeyOf(e), e.messageNumber)
    /\ (Decrypted("B") /\ OneWay /\ InOrder("B")) => ReturnedPlaintext("B")

(***************************************************************************)
(* Key lookup behind the receiving chain's counter.                        *)
(***************************************************************************)
\* This decrypt step of p asked getMessageKey for a number behind the
\* counter of the receiving chain.
LookupBehind(p) ==
    /\ PassedTheGates(p) /\ last'.outcome # "noKeyPair"
    /\ last'.envelope.messageNumber < AtKeyLookup(p).receivingChain.messageNumber

\* m without its entry for k.
Without(m, k) == [j \in DOMAIN m \ {k} |-> m[j]]

\* C29: getMessageKey for a number behind the receiving chain's counter
\* returns the key cached under that number and removes it from the cache,
\* the chain staying as it is; with no key cached under the number it fails
\* with the 'too old' error and changes nothing.  A number that is behind
\* the counter and not cached is not cached again while the chain is the
\* same, so each skipped key is returned at most once.
C29_LookupBehindCounter ==
    [][\A p \in Party :
          LET s1 == AtKeyLookup(p)
              n == last'.envelope.messageNumber
          IN  /\ (LookupBehind(p) /\ n \in DOMAIN s1.skippedMessageKeys)
                    => /\ last'.outcome \in {"ok", "hmac", "aead"}
                       /\ sess'[p].skippedMessageKeys = Without(s1.skippedMessageKeys, n)
                       /\ sess'[p].receivingChain = s1.receivingChain
                       /\ s1.skippedMessageKeys[n] \notin StoredKeys(sess'[p])
                       /\ (last'.outcome = "ok"
                             <=> /\ Genuine(p, last'.envelope)
                                 /\ KeyOf(last'.envelope) = s1.skippedMessageKeys[n])
              /\ (LookupBehind(p) /\ n \notin DOMAIN s1.skippedMessageKeys)
                    => /\ last'.outcome = "tooOldKey"
                       /\ last'.plaintext = ""
                       /\ sess'[p] = s1
              /\ \A k \in 0..MaxMsgs :
                    (/\ sess[p].receivingChain.on
                     /\ k < sess[p].receivingChain.messageNumber
                     /\ k \notin DOMAIN sess[p].skippedMessageKeys
                     /\ sess'[p].receivingChain.on
                     /\ ChainSeed(sess'[p].receivingChain.chainKey)
                           = ChainSeed(sess[p].receivingChain.chainKey))
                       => k \notin DOMAIN sess'[p].skippedMessageKeys]_vars

\* A key that was cached when its number was skipped has been returned and
\* has decrypted its message; the cache is empty again.
C29_Witness ==
    \E p \in Party :
        /\ Decrypted(p) /\ last.outcome = "ok" /\ Genuine(p, last.envelope)
        /\ last.envelope.messageNumber = 0
        /\ sess[p].receivingChain.messageNumber = 2
        /\ sess[p].receivedMessageNumbers = {0, 1}
        /\ 0 \notin DOMAIN sess[p].skippedMessageKeys

\* A lookup behind the counter has found no key and failed as too old.
C29_TooOld ==
    \E p \in Party : Decrypted(p) /\ last.outcome = "tooOldKey"

(***************************************************************************)
(* The numbering of a message chain.                                       *)
(***************************************************************************)
\* The envelopes among the first i - 1 that p sent on the chain of its i-th.
EarlierOnChain(p, i) ==
    {j \in 1..(i - 1) : sent[p][j].envelope.dhPublicKey = sent[p][i].envelope.dhPublicKey}

\* This step left chain c of p in place (it was not replaced by a new chain).
SameChain(before, after) ==
    /\ before.on /\ after.on
    /\ ChainSeed(after.chainKey) = ChainSeed(before.chainKey)

\* C30: ratchetForward returns the counter as it was before the call and
\* increases it by one; the counter of a chain never decreases; the numbers
\* successive calls on one chain return are 0, 1, 2, ... without gap or
\* repeat, each with the message key derived from the chain key the chain
\* had at that number.
C30_ChainNumbering ==
    /\ [](\A p \in Party : \A i \in 1..Len(sent[p]) :
             LET e == sent[p][i].envelope
             IN  /\ e.messageNumber = Cardinality(EarlierOnChain(p, i))
                 /\ KeyOf(e) = computeHMAC(
                                  ChainAfter(MessageChain(ChainSeed(KeyOf(e)[2])),
                                             e.messageNumber).chainKey, <<1>>))
    /\ [][\A p \in Party :
             /\ (EncryptStep(p) /\ last'.outcome = "ok")
                   => /\ last'.envelope.messageNumber = sess[p].sendingChain.messageNumber
                      /\ sess'[p].sendingChain.messageNumber
                            = sess[p].sendingChain.messageNumber + 1
                      /\ KeyOf(last'.envelope)
                            = computeHMAC(sess[p].sendingChain.chainKey, <<1>>)
                      /\ sess'[p].sendingChain.chainKey
                            = computeHMAC(sess[p].sendingChain.chainKey, <<2>>)
             /\ SameChain(sess[p].sendingChain, sess'[p].sendingChain)
                   => sess'[p].sendingChain.messageNumber
                         >= sess[p].sendingChain.messageNumber
             /\ SameChain(sess[p].receivingChain, sess'[p].receivingChain)
                   => sess'[p].receivingChain.messageNumber
                         >= sess[p].receivingChain.messageNumber
             /\ (KeyReturned(p) /\ ~LookupBehind(p))
                   => LET s1 == AtKeyLookup(p)
                          n == last'.envelope.messageNumber
                      IN  /\ sess'[p].receivingChain
                                = ChainAfter(s1.receivingChain,
                                             n + 1 - s1.receivingChain.messageNumber)
                          /\ (last'.outcome = "ok")
                                => KeyOf(last'.envelope)
                                      = computeHMAC(
                                           ChainAfter(s1.receivingChain,
                                              n - s1.receivingChain.messageNumber).chainKey,
                                           <<1>>)]_vars

\* The third call on one sending chain has returned number 2.
C30_Witness ==
    \E p \in Party :
        /\ last.op = "encrypt" /\ last.party = p /\ last.outcome = "ok"
        /\ last.envelope.messageNumber = 2
        /\ sess[p].sendingChain.messageNumber = 3
        /\ Len(sent[p]) = 3

(***************************************************************************)
(* Sequence numbers and message numbers.                                   *)
(***************************************************************************)
\* C31: the envelopes one session's encrypt returns carry the sequence
\* numbers 0, 1, 2, ... in the order they were returned, whatever DH ratchet
\* steps came between, and the session's counter is the number of envelopes
\* returned; the message number of the first envelope of every sending chain
\* is 0.  A DH ratchet step leaves the sequence counter alone and starts the
\* new sending chain at message number 0.
C31_IndependentCounters ==
    /\ [](\A p \in Party :
             /\ sess[p].sendSequenceNumber = Len(sent[p])
             /\ \A i \in 1..Len(sent[p]) :
                   /\ sent[p][i].envelope.sequenceNumber = i - 1
                   /\ EarlierOnChain(p, i) = {} => sent[p][i].envelope.messageNumber = 0)
    /\ [][\A p \in Party :
             DHRatchetStep(p)
                => /\ sess'[p].sendSequenceNumber = sess[p].sendSequenceNumber
                   /\ sess'[p].sendingChain.messageNumber = 0]_vars

\* A party has sent on two sending chains: its last envelope is the first of
\* the new chain, with message number 0 and a sequence number that went on.
C31_Witness ==
    \E p \in Party :
        /\ last.op = "encrypt" /\ last.party = p /\ last.outcome = "ok"
        /\ Len(sent[p]) >= 2
        /\ sent[p][1].envelope.dhPublicKey # last.envelope.dhPublicKey
        /\ last.envelope.messageNumber = 0
        /\ last.envelope.sequenceNumber = Len(sent[p]) - 1

(***************************************************************************)
(* The guard on its own, over a longer time: the clock moves in small and  *)
(* large steps, the pairs validateMessage has admitted come again, the     *)
(* cleanup timer fires until stopCleanup clears it, reset is called.       *)
(* (The guard is rp["B"]; admitted holds the pairs admitted since reset.)  *)
(***************************************************************************)
\* The clock moves on.
Pass ==
    /\ ticks < MaxPasses
    /\ \E d \in {1, clockSkewTolerance + 1, maxNonceAge, maxNonceAge + 1} : now' = now + d
    /\ ticks' = ticks + 1
    /\ last' = Call("tick", "B", "ok", "", NoEnvelope)
    /\ UNCHANGED <<sess, rp, sent, dlv, rand, nextKey, x3, admitted, ss, cert, store, calls, env, sym, symCall>>

\* validateMessage is called with any nonce and a timestamp around the
\* acceptance window, or one that was admitted before.
Present ==
    /\ NumValidated < MaxPresented
    /\ \E nonce \in 1..MaxNoncesSweep :
       \E timestamp \in Timestamps(now) \cup {a[2] : a \in admitted} :
          LET v == validateMessage(rp["B"], nonce, timestamp, now)
          IN  /\ rp' = [rp EXCEPT !["B"] = v.guard]
              /\ admitted' = IF v.outcome = "ok"
                             THEN admitted \cup {<<nonce, timestamp>>}
                             ELSE admitted
              /\ last' = Call("validate", "B", v.outcome, "",
                              [NoEnvelope EXCEPT !.nonce = nonce, !.timestamp = timestamp])
    /\ UNCHANGED <<sess, now, sent, dlv, rand, nextKey, ticks, x3, ss, cert, store, calls, env, sym, symCall>>

\* stopCleanup(): the timer is cleared.
stopCleanup(g) == [g EXCEPT !.cleanupTimer = FALSE]

StopCleanup ==
    /\ rp["B"].cleanupTimer
    /\ rp' = [rp EXCEPT !["B"] = stopCleanup(@)]
    /\ last' = Call("stopCleanup", "B", "ok", "", NoEnvelope)
    /\ UNCHANGED <<sess, now, sent, dlv, rand, nextKey, ticks, x3, admitted, ss, cert, store, calls, env, sym, symCall>>

NextSweep ==
    \/ Present
    \/ Pass
    \/ Cleanup("B")
    \/ StopCleanup
    \/ Reset

SpecSweep == Init /\ [][NextSweep]_vars

\* This step is a validateMessage call.
ValidateStep == last'.op = "validate" /\ rp'["B"] # rp["B"]

C32_StillTracked ==
    /\ last.op = "validate" /\ last.outcome = "replay"
    /\ <<last.envelope.nonce, last.envelope.timestamp>> \in admitted
    /\ now > 1000000

\* C33: for a nonce the guard does not track, validateMessage admits exactly
\* when -30000 <= now - timestamp <= maxAge, recording nonce and timestamp
\* and counting messagesAccepted; older, it rejects and counts
\* messagesRejected and tooOldDetected; more than 30000 ms in the future, it
\* rejects and counts messagesRejected only; a rejected call records nothing.
C33_FreshnessWindow ==
    [][(ValidateStep /\ ~Tracked("B", last'.envelope))
          => LET g == rp["B"]
                 h == rp'["B"]
                 nonceStr == bufferToHex(last'.envelope.nonce)
                 age == now - last'.envelope.timestamp
             IN  /\ (last'.outcome = "ok")
                       <=> (age >= 0 - 30000 /\ age <= maxNonceAge)
                 /\ (last'.outcome = "ok")
                       => /\ h.receivedNonces = g.receivedNonces \cup {nonceStr}
                          /\ DOMAIN h.nonceTimestamps = DOMAIN g.nonceTimestamps \cup {nonceStr}
                          /\ h.nonceTimestamps[nonceStr] = last'.envelope.timestamp
                          /\ \A k \in DOMAIN g.nonceTimestamps :
                                h.nonceTimestamps[k] = g.nonceTimestamps[k]
                          /\ h.stats = [g.stats EXCEPT !.messagesAccepted = @ + 1]
                 /\ (age > maxNonceAge)
                       => /\ last'.outcome = "tooOld"
                          /\ h.stats = [g.stats EXCEPT !.messagesRejected = @ + 1,
                                                       !.tooOldDetected = @ + 1]
                 /\ (age < 0 - 30000)
                       => /\ last'.outcome = "future"
                          /\ h.stats = [g.stats EXCEPT !.messagesRejected = @ + 1]
                 /\ (last'.outcome # "ok")
                       => /\ h.receivedNonces = g.receivedNonces
                          /\ h.nonceTimestamps = g.nonceTimestamps]_vars

\* The guard has admitted a timestamp exactly maxAge old and one exactly
\* 30000 ms ahead, and has rejected one as too old and one as too far ahead.
C33_Witness ==
    /\ last.op = "validate" /\ last.outcome = "ok"
    /\ now - last.envelope.timestamp = maxNonceAge
    /\ Tracked("B", last.envelope)
    /\ rp["B"].nonceTimestamps[bufferToHex(last.envelope.nonce)] = last.envelope.timestamp
    /\ rp["B"].stats.messagesAccepted = 1

\* The other three edges of the window.
C33_AheadAdmitted ==
    /\ last.op = "validate" /\ last.outcome = "ok"
    /\ last.envelope.timestamp - now = clockSkewTolerance
C33_TooOld ==
    /\ last.op = "validate" /\ last.outcome = "tooOld"
    /\ now - last.envelope.timestamp = maxNonceAge + 1
    /\ rp["B"].stats.tooOldDetected = 1
C33_TooFarAhead ==
    /\ last.op = "validate" /\ last.outcome = "future"
    /\ last.envelope.timestamp - now = clockSkewTolerance + 1
    /\ rp["B"].stats.tooOldDetected = 0

\* The guard under the timer: setInterval runs cleanupOldNonces again and
\* again for as long as the timer is not cleared, whatever else happens
\* (the clock here moves past maxNonceAge in one step).
NextSweepLive ==
    \/ Present
    \/ Tick
    \/ Cleanup("B")
    \/ StopCleanup
    \/ Reset

SpecSweepLive == Init /\ [][NextSweepLive]_vars /\ WF_vars(Cleanup("B"))

\* The guard tracks nonce n, and the timestamp recorded for it is older than
\* maxNonceAge.
Overdue(n) ==
    /\ bufferToHex(n) \in rp["B"].receivedNonces
    /\ bufferToHex(n) \in DOMAIN rp["B"].nonceTimestamps
    /\ now - rp["B"].nonceTimestamps[bufferToHex(n)] > maxNonceAge

\* C34: while the cleanup timer runs, a tracked nonce whose age exceeds
\* maxAge is eventually removed from the set of seen nonces, whether or not
\* validateMessage is called again; and a sweep removes exactly the entries
\* older than maxAge, never one whose age is at most maxAge.
C34_TimeDrivenEviction ==
    /\ \A n \in 1..MaxNoncesSweep :
          (Overdue(n) /\ rp["B"].cleanupTimer)
             ~> (bufferToHex(n) \notin rp["B"].receivedNonces \/ ~rp["B"].cleanupTimer)
    /\ [][(last'.op = "cleanup" /\ rp'["B"] # rp["B"])
             => \A k \in rp["B"].receivedNonces :
                   (k \notin rp'["B"].receivedNonces)
                      <=> (now - rp["B"].nonceTimestamps[k] > maxNonceAge)]_vars

\* A sweep has just evicted one nonce and kept a younger one.
C34_Witness ==
    /\ last.op = "cleanup"
    /\ rp["B"].cleanupTimer
    /\ bufferToHex(1) \notin rp["B"].receivedNonces
    /\ bufferToHex(2) \in rp["B"].receivedNonces
    /\ <<1, now - (maxNonceAge + 1)>> \in admitted
    /\ rp["B"].stats.messagesAccepted = 2

\* C35: cleanupOldNonces, validateMessage and reset each run to completion
\* without an await, so the states another call can observe are those
\* between them; in every one of them the set of seen nonces and the map of
\* their timestamps have the same keys.
C35_SetAndMapAgree ==
    \A p \in Party : rp[p].receivedNonces = DOMAIN rp[p].nonceTimestamps

\* validateMessage has admitted a nonce after a sweep evicted another one:
\* two were admitted since the last reset, one is tracked.
C35_Witness ==
    /\ last.op = "validate" /\ last.outcome = "ok"
    /\ rp["B"].stats.messagesAccepted = 2
    /\ rp["B"].receivedNonces = {bufferToHex(last.envelope.nonce)}
    /\ \E a \in admitted : a[1] # last.envelope.nonce

(***************************************************************************)
(* Sessions constructed with a store and a session id: initialize, encrypt *)
(* and decrypt end with _autoSave, and the store's saveRatchetState may    *)
(* fail (saveFails) at any of these calls.                                 *)
(***************************************************************************)
\* A faulty _autoSave without the try/catch: the store's error goes up to
\* the caller.
DHRatchet_autoSave_Rethrows(s, record, saveFails) ==
    IF saveFails
    THEN [err |-> "saveFailed", record |-> record]
    ELSE [err |-> "", record |-> [found |-> TRUE, state |-> export(s),
                                  loads |-> record.loads]]

\* _autoSave(): saveRatchetState puts the exported state into the store; an
\* error of the store is caught and logged.
DHRatchet_autoSave(s, record, saveFails) ==
    IF saveFails
    THEN [err |-> "", record |-> record]
    ELSE [err |-> "", record |-> [found |-> TRUE, state |-> export(s),
                                  loads |-> record.loads]]

InitSaving ==
    /\ sess = [p \in Party |-> NewDHRatchet(SharedSecret, p = "A")]
    /\ rp = [p \in Party |-> NewReplayProtection]
    /\ now = 1000000
    /\ sent = [p \in Party |-> <<>>]
    /\ dlv = [p \in Party |-> <<>>]
    /\ rand = 1
    /\ nextKey = 3
    /\ last = Call("new", "A", "ok", "", NoEnvelope)
    /\ ticks = 0
    /\ x3 = X3Idle
    /\ admitted = {}
    /\ ss = SodiumCrypto
    /\ cert = NoCertificate
    /\ store = [p \in Party |-> NoRecord]
    /\ calls = [c \in CallId |-> NoCall]
    /\ env = NoEnvelopeCall
    /\ sym = NewSymmetricRatchet(SymmetricRootKey)
    /\ symCall = NoSymCall

\* p.initialize(dhKeyPair, dhRemotePublicKey), with the auto-save at its end.
InitializeSaving(p) ==
    /\ sess[p].dhKeyPair = 0
    /\ \E saveFails \in BOOLEAN :
          LET s1 == initialize(sess[p], InitialKeyPair(p),
                               IF p = "A" THEN InitialKeyPair("B") ELSE 0)
              a == DHRatchet_autoSave(s1, store[p], saveFails)
          IN  /\ sess' = [sess EXCEPT ![p] = s1]
              /\ store' = [store EXCEPT ![p] = a.record]
              /\ last' = Call("initialize", p, IF a.err = "" THEN "ok" ELSE a.err, "",
                              NoEnvelope)
    /\ UNCHANGED <<rp, now, sent, dlv, rand, nextKey, ticks, x3, admitted, ss, cert, calls, env, sym, symCall>>

\* p.encrypt(plaintext), with the auto-save before it returns.
EncryptSaving(p) ==
    /\ sess[p].dhKeyPair # 0
    /\ NumSent < MaxMsgsSaving
    /\ \E plaintext \in Plaintext(NumSent) : \E saveFails \in BOOLEAN :
          LET r == encrypt(sess[p], plaintext, now, rand)
              a == IF r.err = "" THEN DHRatchet_autoSave(r.sess, store[p], saveFails)
                   ELSE [err |-> r.err, record |-> store[p]]
          IN  /\ sess' = [sess EXCEPT ![p] = r.sess]
              /\ store' = [store EXCEPT ![p] = a.record]
              /\ sent' = IF a.err = ""
                         THEN [sent EXCEPT ![p] =
                                 Append(@, [envelope |-> r.envelope, plaintext |-> plaintext])]
                         ELSE sent
              /\ rand' = IF r.err = "" THEN rand + 1 ELSE rand
              /\ last' = Call("encrypt", p, IF a.err = "" THEN "ok" ELSE a.err, plaintext,
                              IF a.err = "" THEN r.envelope ELSE NoEnvelope)
    /\ UNCHANGED <<rp, now, dlv, nextKey, ticks, x3, admitted, ss, cert, calls, env, sym, symCall>>

\* p.decrypt(e) for an envelope of the peer, with the auto-save before it
\* returns the plaintext.
DeliverSaving(p) ==
    /\ sess[p].dhKeyPair # 0
    /\ NumDelivered < MaxDeliverSaving
    /\ \E e \in Envelopes(Peer(p)) : \E saveFails \in BOOLEAN :
          LET r == decrypt(sess[p], rp[p], e, now, nextKey)
              a == IF r.outcome = "ok" THEN DHRatchet_autoSave(r.sess, store[p], saveFails)
                   ELSE [err |-> r.outcome, record |-> store[p]]
          IN  /\ sess' = [sess EXCEPT ![p] = r.sess]
              /\ rp' = [rp EXCEPT ![p] = r.guard]
              /\ store' = [store EXCEPT ![p] = a.record]
              /\ dlv' = [dlv EXCEPT ![p] = Append(@, e)]
              /\ nextKey' = IF r.sess.dhKeyPair = nextKey THEN nextKey + 1 ELSE nextKey
              /\ last' = Call("decrypt", p, IF r.outcome = "ok" /\ a.err # "" THEN a.err
                                            ELSE r.outcome,
                              IF a.err = "" THEN r.plaintext ELSE "", e)
    /\ UNCHANGED <<now, sent, rand, ticks, x3, admitted, ss, cert, calls, env, sym, symCall>>

NextSaving ==
    \/ \E p \in Party : InitializeSaving(p)
    \/ \E p \in Party : EncryptSaving(p)
    \/ \E p \in Party : DeliverSaving(p)

SpecSaving == InitSaving /\ [][NextSaving]_vars

\* The store holds the present state of p's session.
Saved(p) == store[p].found /\ store[p].state = export(sess[p])

\* C36: whether the auto-save at the end of initialize, encrypt or decrypt
\* succeeds or fails, the call returns what it returns without a store (the
\* envelope, the plaintext) and the session in memory is the one the call
\* makes without a store; a failed save leaves the store's record as it was.
C36_SaveFailureNotFatal ==
    [][\A p \in Party :
          /\ (last'.op = "initialize" /\ last'.party = p /\ sess'[p] # sess[p])
                => /\ last'.outcome = "ok"
                   /\ sess'[p] = initialize(sess[p], InitialKeyPair(p),
                                            IF p = "A" THEN InitialKeyPair("B") ELSE 0)
                   /\ store'[p] = store[p]
                         \/ store'[p] = [found |-> TRUE, state |-> export(sess'[p]),
                                         loads |-> store[p].loads]
          /\ (EncryptStep(p) /\ sess'[p] # sess[p])
                => LET r == encrypt(sess[p], last'.plaintext, now, rand)
                   IN  /\ last'.outcome = "ok"
                       /\ last'.envelope = r.envelope
                       /\ sent'[p] = Append(sent[p], [envelope |-> r.envelope,
                                                      plaintext |-> last'.plaintext])
                       /\ sess'[p] = r.sess
                       /\ store'[p] = store[p]
                             \/ store'[p] = [found |-> TRUE, state |-> export(sess'[p]),
                                             loads |-> store[p].loads]
          /\ DecryptStep(p)
                => LET r == decrypt(sess[p], rp[p], last'.envelope, now, nextKey)
                   IN  /\ last'.outcome = r.outcome
                       /\ last'.plaintext = r.plaintext
                       /\ sess'[p] = r.sess
                       /\ rp'[p] = r.guard
                       /\ (r.outcome # "ok") => store'[p] = store[p]]_vars

\* B has decrypted A's message and returned its plaintext although the save
\* at the end of the call failed, as did the saves of A's encrypt and of B's
\* initialize: the store holds nothing for B and not A's present state.
C36_Witness ==
    /\ Decrypted("B") /\ last.outcome = "ok" /\ last.plaintext = PlaintextOf("B", last.envelope)
    /\ sess["B"].messagesReceived = 1
    /\ ~store["B"].found
    /\ ~Saved("A")
    /\ Len(sent["A"]) = 1

(***************************************************************************)
(* What seal and unseal leave in the buffers of their secrets.             *)
(***************************************************************************)
\* sodium.secureZero(buffer): the buffer holds zeros afterwards.
secureZero(buffer) == <<"zeros">>

\* The buffers of seal when it returns: the ephemeral private key, the
\* shared secret and the encryption key are zeroed after sodium.encrypt.
seal_buffers(recipientPublicKey, k, native) ==
    LET sharedSecret  == deriveSharedSecret(k, recipientPublicKey)
        encryptionKey == sodium_hkdf(sharedSecret, ZeroSalt, SealedSenderInfo, native)
    IN  [privateKey    |-> secureZero(k),
         sharedSecret  |-> secureZero(sharedSecret),
         derivedKey    |-> secureZero(encryptionKey)]

\* The buffers of unseal when it returns or throws: when sodium.decrypt
\* fails, its catch block zeroes the key it was given and unseal throws
\* before it zeroes anything; otherwise both are zeroed before deserialize.
unseal_buffers(sealedMessage, recipientPrivateKey, native) ==
    LET sharedSecret  == deriveSharedSecret(recipientPrivateKey, sealedMessage.ephemeralPublicKey)
        decryptionKey == sodium_hkdf(sharedSecret, ZeroSalt, SealedSenderInfo, native)
        d == sodium_decrypt(sealedMessage.ciphertext, sealedMessage.nonce, decryptionKey)
    IN  IF d.err # ""
        THEN [sharedSecret |-> sharedSecret,
              derivedKey   |-> secureZero(decryptionKey)]
        ELSE [sharedSecret |-> secureZero(sharedSecret),
              derivedKey   |-> secureZero(decryptionKey)]

\* C37: when seal or unseal has returned or thrown, the ephemeral private
\* key (seal), the shared secret and the derived key it computed hold zeros.
C37_SecretsZeroed ==
    /\ (ss.ready /\ ss.seals > 0)
          => LET b == seal_buffers(Curve25519PublicKey(ss.recipient), 1000 + ss.seals - 1,
                                   ss.native)
             IN  /\ b.privateKey = <<"zeros">>
                 /\ b.sharedSecret = <<"zeros">>
                 /\ b.derivedKey = <<"zeros">>
    /\ (ss.ready /\ ss.unsealed.done)
          => LET b == unseal_buffers(ss.unsealed.given, ss.unsealed.key, ss.native)
             IN  /\ b.sharedSecret = <<"zeros">>
                 /\ b.derivedKey = <<"zeros">>

(***************************************************************************)
(* SecureMessaging: sealed messages between the two parties.  A sealed     *)
(* message carries a sender certificate and a ratchet envelope; whoever    *)
(* seals chooses both, so the receiver is given any envelope of its peer   *)
(* with the certificate as issued or altered, issued by the authority or   *)
(* signed with another key, before or after its expiry.                    *)
(***************************************************************************)
\* The signing key of the authority (the other one of SigningKeys is not).
AuthorityKey == 1
\* The user ids of the parties.
UserOf(p) == IF p = "A" THEN 1 ELSE 2

\* JSON.parse(JSON.stringify(message)) of a ratchet envelope, as seal and
\* unseal carry it: numbers and the JWK come back as they were, each
\* ArrayBuffer (ciphertext, iv, mac, nonce) comes back as the empty object,
\* which is truthy and of which bufferToHex makes the empty string (the
\* nonce and the iv of the model being numbers, -1 stands for it there).
JSONRoundTrip(message) ==
    [message EXCEPT !.ciphertext = <<"object">>, !.iv = 0 - 1,
                    !.mac = <<"object">>, !.nonce = 0 - 1]

\* SealedSenderEncryptor.unseal(sealedMessage, recipientPrivateKey,
\* serverPublicKey) for a message sealed to the recipient, at time t: the
\* error SenderCertificate.verify throws, or the sender id and the message.
SealedSenderEncryptor_unseal(certificate, message, serverPublicKey, t) ==
    LET v == SenderCertificate_verify(certificate, serverPublicKey, t)
    IN  IF v # "true"
        THEN [err |-> v, senderId |-> 0, message |-> NoEnvelope]
        ELSE [err |-> "", senderId |-> certificate.userId,
              message |-> JSONRoundTrip(message)]

\* A faulty receiveSealedMessage that hands the envelope to the ratchet of
\* the user the certificate names before the certificate is verified.
receiveSealedMessage_DecryptFirst(p, s, g, certificate, message, serverPublicKey, t, freshKeyPair) ==
    LET unsealed == SealedSenderEncryptor_unseal(certificate, message, serverPublicKey, t)
    IN  IF certificate.userId # UserOf(Peer(p))
        THEN [outcome |-> "noSession", plaintext |-> "", sess |-> s, guard |-> g,
              decrypted |-> FALSE]
        ELSE LET r == decrypt(s, g, JSONRoundTrip(message), t, freshKeyPair)
             IN  [outcome |-> IF unsealed.err # "" THEN unsealed.err ELSE r.outcome,
                  plaintext |-> IF unsealed.err # "" THEN "" ELSE r.plaintext,
                  sess |-> r.sess, guard |-> r.guard, decrypted |-> TRUE]

\* p.receiveSealedMessage(sealedMessage, serverPublicKey): unseal, look up
\* the ratchet of the sender the certificate names, decrypt.  s and g are
\* the ratchet p holds (for its peer) and its guard.
receiveSealedMessage(p, s, g, certificate, message, serverPublicKey, t, freshKeyPair) ==
    LET unsealed == SealedSenderEncryptor_unseal(certificate, message, serverPublicKey, t)
    IN  IF unsealed.err # ""
        THEN [outcome |-> unsealed.err, plaintext |-> "", sess |-> s, guard |-> g,
              decrypted |-> FALSE]
        ELSE IF unsealed.senderId # UserOf(Peer(p))
        THEN [outcome |-> "noSession", plaintext |-> "", sess |-> s, guard |-> g,
              decrypted |-> FALSE]
        ELSE LET r == decrypt(s, g, unsealed.message, t, freshKeyPair)
             IN  [outcome |-> r.outcome, plaintext |-> r.plaintext,
                  sess |-> r.sess, guard |-> r.guard, decrypted |-> TRUE]

\* p is given a sealed message.
ReceiveSealed(p) ==
    /\ cert.issued > 0
    /\ NumDelivered < MaxDeliverSecure
    /\ \E given \in {cert.certificate} \cup Altered(cert.certificate) :
       \E e \in Envelopes(Peer(p)) :
          LET r == receiveSealedMessage(p, sess[p], rp[p], given, e, AuthorityKey, now, nextKey)
          IN  /\ sess' = [sess EXCEPT ![p] = r.sess]
              /\ rp' = [rp EXCEPT ![p] = r.guard]
              /\ dlv' = IF r.decrypted
                        THEN [dlv EXCEPT ![p] = Append(@, JSONRoundTrip(e))]
                        ELSE dlv
              /\ nextKey' = IF r.sess.dhKeyPair = nextKey THEN nextKey + 1 ELSE nextKey
              /\ cert' = [cert EXCEPT !.verified =
                            [done |-> TRUE, given |-> given, key |-> AuthorityKey, at |-> now,
                             result |-> SenderCertificate_verify(given, AuthorityKey, now)]]
              /\ last' = Call(IF r.decrypted THEN "decrypt" ELSE "receiveSealed", p,
                              r.outcome, r.plaintext,
                              IF r.decrypted THEN JSONRoundTrip(e) ELSE e)
    /\ UNCHANGED <<now, sent, rand, ticks, x3, admitted, ss, store, calls, env, sym, symCall>>

NextSecure ==
    \/ Issue
    \/ CertTick
    \/ \E p \in Party : Encrypt(p, MaxMsgsSecure)
    \/ \E p \in Party : ReceiveSealed(p)

SpecSecure == Init /\ [][NextSecure]_vars

\* This step is a receiveSealedMessage call of p.
ReceiveStep(p) ==
    /\ last'.party = p /\ last'.op \in {"decrypt", "receiveSealed"}
    /\ cert'.verified.done /\ cert'.issued = cert.issued
    /\ <<cert', last', sess', rp'>> # <<cert, last, sess, rp>>

\* C38: receiveSealedMessage hands the envelope to a ratchet only when the
\* certificate in the sealed message has been verified: not expired, signed
\* by the authority over the fields it carries.  With an expired or
\* mis-signed certificate the call fails with the error of the verification
\* and changes no ratchet session and no replay guard of the receiver.
C38_CertificateBeforeRatchet ==
    [][\A p \in Party :
          ReceiveStep(p)
             => LET c == cert'.verified.given
                    valid == /\ c.validUntil >= now
                             /\ ecdsaVerify(AuthorityKey, c.signature,
                                            CertBytes(c.userId, c.senderKey, c.validUntil))
                IN  /\ (DecryptStep(p) \/ sess' # sess \/ rp' # rp) => valid
                    /\ ~valid
                          => /\ last'.outcome \in {"expired", "invalidSignature"}
                             /\ last'.plaintext = ""
                             /\ sess' = sess /\ rp' = rp /\ dlv' = dlv]_vars

\* A sealed message with a certificate that has expired, issued by the
\* authority to the receiver's peer, around an envelope of that peer, has
\* been refused; no ratchet has been given anything.
C38_Witness ==
    /\ last.op = "receiveSealed" /\ last.outcome = "expired"
    /\ cert.verified.given = cert.certificate /\ cert.signer = AuthorityKey
    /\ cert.certificate.userId = UserOf(Peer(last.party))
    /\ Genuine(last.party, last.envelope)
    /\ dlv[last.party] = <<>>
    /\ sess[last.party].messagesReceived = 0

\* A sealed message with a certificate signed by another key has been refused.
C38_MisSigned ==
    /\ last.op = "receiveSealed" /\ last.outcome = "invalidSignature"
    /\ cert.verified.given = cert.certificate /\ cert.signer # AuthorityKey

\* A sealed message with a valid certificate has reached the ratchet.
C38_Decrypted ==
    /\ last.op = "decrypt"
    /\ cert.verified.done /\ cert.verified.result = "true"
    /\ sess[last.party].receivingChain.on

(***************************************************************************)
(* SealedEnvelope on its own (SealedSenderV2.js): serialize applied to     *)
(* any certificate and message bytes, deserialize applied to what          *)
(* serialize returned, to a prefix of it, or to any bytes.                 *)
(***************************************************************************)
\* The byte strings that start s and are shorter than s.
ProperPrefixes(s) == {SubSeq(s, 1, k) : k \in 0..(Len(s) - 1)}

\* new SealedEnvelope(senderCertificate, encryptedMessage).serialize()
EnvelopeSerialize ==
    /\ \E c \in ByteStrings(MaxEnvelopeBytes), m \in ByteStrings(MaxEnvelopeBytes) :
          env' = [NoEnvelopeCall EXCEPT !.op = "serialize",
                                        !.senderCertificate = c,
                                        !.encryptedMessage = m,
                                        !.serialized = serialize(c, m)]
    /\ UNCHANGED <<sess, rp, now, sent, dlv, rand, nextKey, last, ticks, x3, admitted,
                   ss, cert, store, calls, sym, symCall>>

\* SealedEnvelope.deserialize(bytes)
EnvelopeDeserialize ==
    /\ \E bytes \in {env.serialized} \cup ProperPrefixes(env.serialized)
                       \cup ByteStrings(MaxWireBytes) :
          env' = [env EXCEPT !.op = "deserialize", !.bytes = bytes,
                             !.result = deserialize(bytes)]
    /\ UNCHANGED <<sess, rp, now, sent, dlv, rand, nextKey, last, ticks, x3, admitted,
                   ss, cert, store, calls, sym, symCall>>

NextEnvelope ==
    \/ EnvelopeSerialize
    \/ EnvelopeDeserialize

SpecEnvelope == Init /\ [][NextEnvelope]_vars

\* The number the first four bytes of a byte string spell, big-endian.
BigEndian32(bytes) ==
    ((bytes[1] * 256 + bytes[2]) * 256 + bytes[3]) * 256 + bytes[4]

\* C39: the serialization of certificate c and message m is the length of c
\* as four bytes, big-endian, then c, then m; deserialize gives c and m back
\* from it, for empty c or m too; deserialize fails on fewer than 4 bytes
\* and on fewer than 4 + certLength bytes.
C39_EnvelopeFormat ==
    LET c == env.senderCertificate
        m == env.encryptedMessage
        w == env.serialized
        \* serialize has been called (it returns four bytes at least)
        made == w # <<>>
    IN  /\ made
           => /\ Len(w) = 4 + Len(c) + Len(m)
              /\ BigEndian32(w) = Len(c)
              /\ \A i \in 1..Len(c) : w[4 + i] = c[i]
              /\ \A i \in 1..Len(m) : w[4 + Len(c) + i] = m[i]
        /\ made /\ env.op = "deserialize" /\ env.bytes = w
           => /\ env.result.err = ""
              /\ env.result.senderCertificate = c
              /\ env.result.encryptedMessage = m
        /\ env.op = "deserialize" /\ Len(env.bytes) < 4
           => env.result.err # ""
        /\ env.op = "deserialize" /\ Len(env.bytes) >= 4
              /\ Len(env.bytes) < 4 + BigEndian32(env.bytes)
           => env.result.err # ""

\* A certificate and a message of the greatest length have come back from
\* their serialization.
C39_Witness ==
    /\ env.op = "deserialize" /\ env.bytes = env.serialized
    /\ Len(env.senderCertificate) = MaxEnvelopeBytes
    /\ Len(env.encryptedMessage) = MaxEnvelopeBytes
    /\ env.senderCertificate # env.encryptedMessage
    /\ env.result.err = ""
    /\ env.result.senderCertificate = env.senderCertificate
    /\ env.result.encryptedMessage = env.encryptedMessage

\* An empty certificate and an empty message have come back.
C39_Empty ==
    /\ env.op = "deserialize" /\ env.bytes = env.serialized
    /\ env.senderCertificate = <<>> /\ env.encryptedMessage = <<>>
    /\ env.serialized = <<0, 0, 0, 0>>
    /\ env.result.err = ""
    /\ env.result.senderCertificate = <<>> /\ env.result.encryptedMessage = <<>>

\* deserialize has refused three bytes.
C39_TooShort ==
    /\ env.op = "deserialize" /\ Len(env.bytes) = 3
    /\ env.result.err = "tooShort"

\* deserialize has refused a serialization that lost the last byte of its
\* certificate, and bytes whose length field is beyond any input.
C39_Incomplete ==
    /\ env.op = "deserialize" /\ env.result.err = "corrupted"
    /\ \/ /\ env.encryptedMessage = <<>> /\ env.senderCertificate # <<>>
          /\ env.bytes = SubSeq(env.serialized, 1, Len(env.serialized) - 1)
       \/ env.bytes[1] = 1

(***************************************************************************)
(* SymmetricRatchet (SymmetricRatchet.js): a KDF chain that keeps every    *)
(* message key it derives in the Map messageKeys until cleanup drops it.   *)
(***************************************************************************)
\* hmac(key, data): HMAC-SHA256
SymmetricRatchet_hmac(key, data) == <<"hmac", key, data>>

\* ratchetForward(): derive the message key of the current number, keep it
\* in messageKeys, replace the chain key, count.
SymmetricRatchet_ratchetForward(s) ==
    LET messageKey  == SymmetricRatchet_hmac(s.chainKey, "MessageKeys")
        newChainKey == SymmetricRatchet_hmac(s.chainKey, "ChainKey")
    IN  [chainKey |-> newChainKey,
         messageNumber |-> s.messageNumber + 1,
         messageKeys |-> [n \in (DOMAIN s.messageKeys) \cup {s.messageNumber} |->
                             IF n = s.messageNumber THEN messageKey ELSE s.messageKeys[n]]]

\* The loop of getMessageKey: ratchetForward while messageNumber <= n.
RECURSIVE RatchetUpTo(_, _)
RatchetUpTo(s, messageNumber) ==
    IF s.messageNumber <= messageNumber
    THEN RatchetUpTo(SymmetricRatchet_ratchetForward(s), messageNumber)
    ELSE s

\* messageKeys.get(messageNumber)
MapGet(messageKeys, messageNumber) ==
    IF messageNumber \in DOMAIN messageKeys THEN messageKeys[messageNumber] ELSE Undefined

\* getMessageKey(messageNumber): the value returned and the object after it.
SymmetricRatchet_getMessageKey(s, messageNumber) ==
    IF messageNumber \in DOMAIN s.messageKeys
    THEN [returned |-> s.messageKeys[messageNumber], sym |-> s]
    ELSE LET r == RatchetUpTo(s, messageNumber)
         IN  [returned |-> MapGet(r.messageKeys, messageNumber), sym |-> r]

\* cleanup(keepLast)
SymmetricRatchet_cleanup(s, keepLast) ==
    LET minNumber == s.messageNumber - keepLast
    IN  [s EXCEPT !.messageKeys =
            [n \in {num \in DOMAIN s.messageKeys : ~(num < minNumber)} |-> s.messageKeys[n]]]

\* ratchet.ratchetForward()
SymRatchetForward ==
    /\ sym.messageNumber < MaxSymNumber
    /\ sym' = SymmetricRatchet_ratchetForward(sym)
    /\ symCall' = [op |-> "ratchetForward", messageNumber |-> sym.messageNumber,
                   returned |-> sym'.messageKeys[sym.messageNumber]]
    /\ UNCHANGED <<sess, rp, now, sent, dlv, rand, nextKey, last, ticks, x3, admitted,
                   ss, cert, store, calls, env>>

\* ratchet.getMessageKey(n)
SymGetMessageKey ==
    /\ \E n \in 0..(MaxSymNumber - 1) :
          LET r == SymmetricRatchet_getMessageKey(sym, n)
          IN  /\ sym' = r.sym
              /\ symCall' = [op |-> "getMessageKey", messageNumber |-> n,
                             returned |-> r.returned]
    /\ UNCHANGED <<sess, rp, now, sent, dlv, rand, nextKey, last, ticks, x3, admitted,
                   ss, cert, store, calls, env>>

\* ratchet.cleanup() and ratchet.cleanup(keepLast)
SymCleanup ==
    /\ \E keepLast \in (0..MaxKeepLast) \cup {100} :
          /\ sym' = SymmetricRatchet_cleanup(sym, keepLast)
          /\ symCall' = [op |-> "cleanup", messageNumber |-> keepLast, returned |-> Undefined]
    /\ UNCHANGED <<sess, rp, now, sent, dlv, rand, nextKey, last, ticks, x3, admitted,
                   ss, cert, store, calls, env>>

NextSym ==
    \/ SymRatchetForward
    \/ SymGetMessageKey
    \/ SymCleanup

SpecSym == Init /\ [][NextSym]_vars

\* The key of message number n on the chain that starts at the root key.
RECURSIVE SymChainKeyAt(_)
SymChainKeyAt(n) ==
    IF n = 0 THEN SymmetricRootKey
    ELSE SymmetricRatchet_hmac(SymChainKeyAt(n - 1), "ChainKey")
SymMessageKeyAt(n) == SymmetricRatchet_hmac(SymChainKeyAt(n), "MessageKeys")

\* C40: getMessageKey(n) never returns a missing key: for n behind the
\* counter it returns the key cached for n (for n at or ahead of the counter
\* the key it derives), and it does not return undefined when cleanup has
\* dropped the key of n.
C40_NeverUndefined ==
    symCall.op = "getMessageKey"
       => /\ symCall.returned # Undefined
          /\ symCall.returned = SymMessageKeyAt(symCall.messageNumber)

\* While its key is cached, a number behind the counter gets that key.
C40_CachedBehind ==
    [][\A n \in 0..(MaxSymNumber - 1) :
          /\ symCall'.op = "getMessageKey" /\ symCall'.messageNumber = n
          /\ <<sym', symCall'>> # <<sym, symCall>>
          /\ n < sym.messageNumber /\ n \in DOMAIN sym.messageKeys
          => /\ symCall'.returned = sym.messageKeys[n]
             /\ symCall'.returned = SymMessageKeyAt(n)
             /\ sym' = sym]_vars

\* getMessageKey has returned the cached key of a number behind the counter.
C40_Cached ==
    /\ symCall.op = "getMessageKey"
    /\ symCall.messageNumber < sym.messageNumber - 1
    /\ symCall.returned = SymMessageKeyAt(symCall.messageNumber)

\* getMessageKey has returned undefined for a number behind the counter
\* whose key cleanup has dropped.
C40_Evicted ==
    /\ symCall.op = "getMessageKey"
    /\ symCall.messageNumber < sym.messageNumber
    /\ symCall.messageNumber \notin DOMAIN sym.messageKeys
    /\ symCall.returned = Undefined

====
